---- MODULE Spec2Model ----
(***************************************************************************)
(* Model of the Power Management usermod                                   *)
(* (usermods/Power_Management/Power_Management.cpp) and of the LED         *)
(* Controller usermod (LEDControllerUsermod).                              *)
(*                                                                         *)
(* The host calls setup() once and loop() on every cycle; the clock        *)
(* millis() is an unsigned 32-bit millisecond counter.  Time passes in     *)
(* Tick steps, the handlers are atomic steps that read the clock.          *)
(***************************************************************************)
EXTENDS Integers, Naturals, Sequences, FiniteSets, TLC

\* ------------------------------------------------------------------ bounds
\* number of Tick steps explored
MaxTicks == 3

\* amounts of time (ms) that may pass between two handler calls
Deltas == {1, 100, 4999, 10000, 359999}

\* raw ADC readings offered to loop() in the main specification
AdcValues == {2048, 3025}

\* ----------------------------------------------------------- arithmetic
\* unsigned long arithmetic wraps; the ESP32's is 32 bits wide, the model
\* checker's integers are 32-bit signed, so the clock is given 30 bits: the
\* arithmetic is the same and only the wrap period is shorter
UL_MOD == 2^30

\* a - b in unsigned long arithmetic
SubUL(a, b) == (a - b) % UL_MOD

\* a + b in unsigned long arithmetic
AddUL(a, b) == (a + b) % UL_MOD

RECURSIVE GCD(_, _)
GCD(a, b) == IF b = 0 THEN a ELSE GCD(b, a % b)

\* float values are modelled as exact fractions num/den in lowest terms,
\* den > 0
Rat(n, d) ==
  LET g == GCD(IF n < 0 THEN -n ELSE n, d)
  IN  [num |-> n \div g, den |-> d \div g]

RatAdd(a, b) == Rat(a.num * b.den + b.num * a.den, a.den * b.den)

RatMul(a, b) == Rat(a.num * b.num, a.den * b.den)

\* division by a positive fraction
RatDiv(a, b) == Rat(a.num * b.den, a.den * b.num)

RatLeq(a, b) == a.num * b.den <= b.num * a.den

\* ------------------------------------------------------------ constants
HIGH == TRUE

LOW == FALSE

ADC_MAX_VALUE == 4095

ADC_REF_VOLTAGE == Rat(33, 10)

ACTUAL_R1 == Rat(20000, 1)

ACTUAL_R2 == Rat(10000, 1)

VOLTAGE_DIVIDER_RATIO == RatDiv(ACTUAL_R1, RatAdd(ACTUAL_R1, ACTUAL_R2))

CALIBRATION_SLOPE == Rat(878, 1000)

CALIBRATION_INTERCEPT == Rat(-10, 1000)

LOW_BATTERY_THRESHOLD == Rat(32, 10)

KEEP_ALIVE_TIMEOUT == 360000

\* ---------------------------------------------------------------- state
VARIABLES
  now,                    \* millis()
  ticks,                  \* number of Tick steps taken
  setupCalled,            \* the host has called setup()
  enabled, initDone,
  lastActivityTime,
  lastInputCheck, inputCheckInterval, shutdownDelay,
  lastBatteryCheck, batteryCheckInterval,
  lastInputState, inputLowStartTime,
  shutdownTriggered, lowBatteryShutdown,
  currentBatteryVoltage, lastBatteryVoltage,
  configEnabled, configOutputPin, configInputPin, configVbatPin,
  configKeepAlivePin, configShutdownDelay, configLowBatteryThreshold,
  configKeepAliveTimeout,
  outputPin,              \* level of GPIO33 (OUTPUT_PIN)
  keepAlivePin,           \* level of GPIO1 (KEEP_ALIVE_PIN)
  vbatAdc,                \* the raw reading of VBAT_PIN the battery check
                          \* printed last, -1 before the first one
  log,                    \* what the last handler call did: empty unless
                          \* it was a loop() call that was not skipped
  sampleLowSince,         \* history: time of the first of the unbroken run
                          \* of input checks that read LOW, -1 if the last
                          \* input check read HIGH or none ran yet
  kaShutdown,             \* history: the keep-alive check has fired
  idleExceeded,           \* history: 360000 ms or more have passed without
                          \* recorded activity since setup()
  led,                    \* the members of the LED Controller, a record
  ledHist,                \* history of the LED Controller, a record
  pat                     \* the pixel buffer and the statics of the pattern
                          \* routines, a record

cfgVars == <<configEnabled, configOutputPin, configInputPin, configVbatPin,
             configKeepAlivePin, configShutdownDelay,
             configLowBatteryThreshold, configKeepAliveTimeout>>

memberVars == <<lastActivityTime, lastInputCheck, lastBatteryCheck,
                lastInputState, inputLowStartTime, shutdownTriggered,
                lowBatteryShutdown, currentBatteryVoltage,
                outputPin, keepAlivePin>>

fixedVars == <<inputCheckInterval, shutdownDelay, batteryCheckInterval,
               lastBatteryVoltage>>

histVars == <<sampleLowSince, kaShutdown, idleExceeded>>

ledVars == <<led, ledHist>>

patVars == <<pat>>

vars == <<now, ticks, setupCalled, enabled, initDone, cfgVars, memberVars,
          fixedVars, vbatAdc, log, histVars, ledVars, patVars>>

\* the members loop() and its helpers read and write, as one record
Self ==
  [ lastActivityTime |-> lastActivityTime,
    lastInputCheck |-> lastInputCheck,
    inputCheckInterval |-> inputCheckInterval,
    shutdownDelay |-> shutdownDelay,
    lastBatteryCheck |-> lastBatteryCheck,
    batteryCheckInterval |-> batteryCheckInterval,
    lastInputState |-> lastInputState,
    inputLowStartTime |-> inputLowStartTime,
    shutdownTriggered |-> shutdownTriggered,
    lowBatteryShutdown |-> lowBatteryShutdown,
    currentBatteryVoltage |-> currentBatteryVoltage,
    outputPin |-> outputPin,
    keepAlivePin |-> keepAlivePin,
    log |-> {"loop"} ]

\* ------------------------------------------------------------- helpers
\* checkInputPin with the hold compared by > instead of >=
checkInputPin_StrictDelay(s, cur, ms) ==
  LET s1 == IF cur = LOW /\ s.lastInputState = HIGH
            THEN [s EXCEPT !.inputLowStartTime = ms,
                           !.log = @ \cup {"pulled_low"}]
            ELSE s
      s2 == IF /\ cur = LOW
               /\ ~s1.shutdownTriggered
               /\ SubUL(ms, s1.inputLowStartTime) > s1.shutdownDelay
            THEN [s1 EXCEPT !.shutdownTriggered = TRUE,
                            !.outputPin = LOW,
                            !.keepAlivePin = LOW,
                            !.log = @ \cup {"held_low_shutdown"}]
            ELSE s1
      s3 == IF cur = HIGH /\ s2.lastInputState = LOW
            THEN [s2 EXCEPT !.inputLowStartTime = 0,
                            !.shutdownTriggered = FALSE,
                            !.outputPin = HIGH,
                            !.keepAlivePin = HIGH,
                            !.log = @ \cup {"released"}]
            ELSE s2
  IN  [s3 EXCEPT !.lastInputState = cur]

\* checkInputPin resetting on every HIGH reading, not only on a rising edge
checkInputPin_AnyHigh(s, cur, ms) ==
  LET s1 == IF cur = LOW /\ s.lastInputState = HIGH
            THEN [s EXCEPT !.inputLowStartTime = ms,
                           !.log = @ \cup {"pulled_low"}]
            ELSE s
      s2 == IF /\ cur = LOW
               /\ ~s1.shutdownTriggered
               /\ SubUL(ms, s1.inputLowStartTime) >= s1.shutdownDelay
            THEN [s1 EXCEPT !.shutdownTriggered = TRUE,
                            !.outputPin = LOW,
                            !.keepAlivePin = LOW,
                            !.log = @ \cup {"held_low_shutdown"}]
            ELSE s1
      s3 == IF cur = HIGH
            THEN [s2 EXCEPT !.inputLowStartTime = 0,
                            !.shutdownTriggered = FALSE,
                            !.outputPin = HIGH,
                            !.keepAlivePin = HIGH,
                            !.log = @ \cup {"released"}]
            ELSE s2
  IN  [s3 EXCEPT !.lastInputState = cur]

\* checkInputPin driving only OUTPUT_PIN back to HIGH on release
checkInputPin_OneOutput(s, cur, ms) ==
  LET s1 == IF cur = LOW /\ s.lastInputState = HIGH
            THEN [s EXCEPT !.inputLowStartTime = ms,
                           !.log = @ \cup {"pulled_low"}]
            ELSE s
      s2 == IF /\ cur = LOW
               /\ ~s1.shutdownTriggered
               /\ SubUL(ms, s1.inputLowStartTime) >= s1.shutdownDelay
            THEN [s1 EXCEPT !.shutdownTriggered = TRUE,
                            !.outputPin = LOW,
                            !.keepAlivePin = LOW,
                            !.log = @ \cup {"held_low_shutdown"}]
            ELSE s1
      s3 == IF cur = HIGH /\ s2.lastInputState = LOW
            THEN [s2 EXCEPT !.inputLowStartTime = 0,
                            !.shutdownTriggered = FALSE,
                            !.outputPin = HIGH,
                            !.log = @ \cup {"released"}]
            ELSE s2
  IN  [s3 EXCEPT !.lastInputState = cur]

\* checkInputPin driving the outputs back to HIGH on release without
\* clearing shutdownTriggered
checkInputPin_KeepsFlag(s, cur, ms) ==
  LET s1 == IF cur = LOW /\ s.lastInputState = HIGH
            THEN [s EXCEPT !.inputLowStartTime = ms,
                           !.log = @ \cup {"pulled_low"}]
            ELSE s
      s2 == IF /\ cur = LOW
               /\ ~s1.shutdownTriggered
               /\ SubUL(ms, s1.inputLowStartTime) >= s1.shutdownDelay
            THEN [s1 EXCEPT !.shutdownTriggered = TRUE,
                            !.outputPin = LOW,
                            !.keepAlivePin = LOW,
                            !.log = @ \cup {"held_low_shutdown"}]
            ELSE s1
      s3 == IF cur = HIGH /\ s2.lastInputState = LOW
            THEN [s2 EXCEPT !.inputLowStartTime = 0,
                            !.outputPin = HIGH,
                            !.keepAlivePin = HIGH,
                            !.log = @ \cup {"released"}]
            ELSE s2
  IN  [s3 EXCEPT !.lastInputState = cur]

\* void checkInputPin(): cur is digitalRead(INPUT_PIN), ms is millis()
checkInputPin(s, cur, ms) ==
  LET s1 == IF cur = LOW /\ s.lastInputState = HIGH
            THEN [s EXCEPT !.inputLowStartTime = ms,
                           !.log = @ \cup {"pulled_low"}]
            ELSE s
      s2 == IF /\ cur = LOW
               /\ ~s1.shutdownTriggered
               /\ SubUL(ms, s1.inputLowStartTime) >= s1.shutdownDelay
            THEN [s1 EXCEPT !.shutdownTriggered = TRUE,
                            !.outputPin = LOW,
                            !.keepAlivePin = LOW,
                            !.log = @ \cup {"held_low_shutdown"}]
            ELSE s1
      s3 == IF cur = HIGH /\ s2.lastInputState = LOW
            THEN [s2 EXCEPT !.inputLowStartTime = 0,
                            !.shutdownTriggered = FALSE,
                            !.outputPin = HIGH,
                            !.keepAlivePin = HIGH,
                            !.log = @ \cup {"released"}]
            ELSE s2
  IN  [s3 EXCEPT !.lastInputState = cur]

\* the conversion without the calibration intercept
calibratedVoltage_NoIntercept(adcValue) ==
  LET voltageAtPin == RatMul(RatDiv(Rat(adcValue, 1), Rat(ADC_MAX_VALUE, 1)),
                             ADC_REF_VOLTAGE)
      batteryVoltage == RatDiv(voltageAtPin, VOLTAGE_DIVIDER_RATIO)
  IN  RatMul(CALIBRATION_SLOPE, batteryVoltage)

\* the conversion of a raw ADC reading to the calibrated battery voltage
calibratedVoltage(adcValue) ==
  LET voltageAtPin == RatMul(RatDiv(Rat(adcValue, 1), Rat(ADC_MAX_VALUE, 1)),
                             ADC_REF_VOLTAGE)
      batteryVoltage == RatDiv(voltageAtPin, VOLTAGE_DIVIDER_RATIO)
  IN  RatAdd(RatMul(CALIBRATION_SLOPE, batteryVoltage), CALIBRATION_INTERCEPT)

\* checkBatteryVoltage recomputing the latch at every check
checkBatteryVoltage_Recompute(s, adcValue) ==
  LET v  == calibratedVoltage(adcValue)
      s1 == [s EXCEPT !.currentBatteryVoltage = v]
  IN  IF RatLeq(v, LOW_BATTERY_THRESHOLD)
      THEN [s1 EXCEPT !.lowBatteryShutdown = TRUE,
                      !.outputPin = LOW,
                      !.keepAlivePin = LOW,
                      !.log = @ \cup {"low_battery"}]
      ELSE [s1 EXCEPT !.lowBatteryShutdown = FALSE]

\* void checkBatteryVoltage(): adcValue is analogRead(VBAT_PIN)
checkBatteryVoltage(s, adcValue) ==
  LET v  == calibratedVoltage(adcValue)
      s1 == [s EXCEPT !.currentBatteryVoltage = v]
  IN  IF RatLeq(v, LOW_BATTERY_THRESHOLD) /\ ~s1.lowBatteryShutdown
      THEN [s1 EXCEPT !.lowBatteryShutdown = TRUE,
                      !.outputPin = LOW,
                      !.keepAlivePin = LOW,
                      !.log = @ \cup {"low_battery"}]
      ELSE s1

\* the keep-alive check comparing by > instead of >=
checkKeepAlive_Strict(s, ms) ==
  IF SubUL(ms, s.lastActivityTime) > KEEP_ALIVE_TIMEOUT
  THEN [s EXCEPT !.keepAlivePin = LOW,
                 !.outputPin = LOW,
                 !.shutdownTriggered = TRUE,
                 !.log = @ \cup {"keep_alive_timeout"}]
  ELSE s

\* the keep-alive check with the one minute its comment speaks of
checkKeepAlive_OneMinute(s, ms) ==
  IF SubUL(ms, s.lastActivityTime) >= 60000
  THEN [s EXCEPT !.keepAlivePin = LOW,
                 !.outputPin = LOW,
                 !.shutdownTriggered = TRUE,
                 !.log = @ \cup {"keep_alive_timeout"}]
  ELSE s

\* the keep-alive check driving the outputs LOW without recording it
checkKeepAlive_NoFlag(s, ms) ==
  IF SubUL(ms, s.lastActivityTime) >= KEEP_ALIVE_TIMEOUT
  THEN [s EXCEPT !.keepAlivePin = LOW,
                 !.outputPin = LOW,
                 !.log = @ \cup {"keep_alive_timeout"}]
  ELSE s

\* the keep-alive check at the end of loop()
checkKeepAlive(s, ms) ==
  IF SubUL(ms, s.lastActivityTime) >= KEEP_ALIVE_TIMEOUT
  THEN [s EXCEPT !.keepAlivePin = LOW,
                 !.outputPin = LOW,
                 !.shutdownTriggered = TRUE,
                 !.log = @ \cup {"keep_alive_timeout"}]
  ELSE s

\* the periodic input check comparing the clock with a deadline
loopInput_Deadline(s, cur, ms) ==
  IF ms > AddUL(s.lastInputCheck, s.inputCheckInterval)
  THEN [checkInputPin([s EXCEPT !.log = @ \cup {"input_check"}], cur, ms)
          EXCEPT !.lastInputCheck = ms]
  ELSE s

\* the periodic input check of loop()
loopInput(s, cur, ms) ==
  IF SubUL(ms, s.lastInputCheck) > s.inputCheckInterval
  THEN [checkInputPin([s EXCEPT !.log = @ \cup {"input_check"}], cur, ms)
          EXCEPT !.lastInputCheck = ms]
  ELSE s

\* the periodic battery check of loop()
loopBattery(s, adcValue, ms) ==
  IF SubUL(ms, s.lastBatteryCheck) > s.batteryCheckInterval
  THEN [checkBatteryVoltage([s EXCEPT !.log = @ \cup {"battery_check"}],
                            adcValue)
          EXCEPT !.lastBatteryCheck = ms]
  ELSE s

\* the body of loop() after the early return
loopBody(s, cur, adcValue, ms) ==
  checkKeepAlive(loopBattery(loopInput(s, cur, ms), adcValue, ms), ms)

\* top[key] | dflt of ArduinoJson: the value if the key is present
JsonOr(obj, key, dflt) == IF key \in DOMAIN obj THEN obj[key] ELSE dflt

\* the JSON objects offered to readFromConfig and readFromJsonState
JsonObjects ==
  { [enabled |-> FALSE, shutdownDelay |-> 10000],
    [enabled |-> TRUE, outputPin |-> 33, inputPin |-> 35, vbatPin |-> 7,
     keepAlivePin |-> 1, shutdownDelay |-> 5000,
     lowBatteryThreshold |-> Rat(32, 10), keepAliveTimeout |-> 360000] }

\* the assignments shared by readFromConfig and readFromJsonState
readObject(obj) ==
  /\ configEnabled' = JsonOr(obj, "enabled", configEnabled)
  /\ configOutputPin' = JsonOr(obj, "outputPin", configOutputPin)
  /\ configInputPin' = JsonOr(obj, "inputPin", configInputPin)
  /\ configVbatPin' = JsonOr(obj, "vbatPin", configVbatPin)
  /\ configKeepAlivePin' = JsonOr(obj, "keepAlivePin", configKeepAlivePin)
  /\ configShutdownDelay' = JsonOr(obj, "shutdownDelay", configShutdownDelay)
  /\ configLowBatteryThreshold' =
       JsonOr(obj, "lowBatteryThreshold", configLowBatteryThreshold)
  /\ configKeepAliveTimeout' =
       JsonOr(obj, "keepAliveTimeout", configKeepAliveTimeout)

\* =================================================== the LED Controller
\* enum Mode
COLOR_SELECT == 0

PATTERN_SELECT == 1

BRIGHTNESS_SELECT == 2

\* enum Colors: WLED_MODE comes after COLOR_COUNT
WHITE == 0

BLUE == 5

COLOR_COUNT == 10

WLED_MODE == 11

\* enum Patterns
UNIFORM_BLINK == 0

CHASER == 1

RANDOM_BLINK == 3

PATTERN_COUNT == 7

QUICK_PRESS_TIME == 500

LONG_PRESS_TIME == 1000

SLEEP_PRESS_TIME == 3000

PATTERN_INTERVAL == 100

BRIGHTNESS_25 == 64

BRIGHTNESS_50 == 128

BRIGHTNESS_75 == 192

BRIGHTNESS_100 == 255

\* DEBOUNCE_TIME is used by handleButton() but defined nowhere in the
\* repository; the documented debounce window, which is also the literal the
\* brightness-selection loop uses in the same place, is 50 ms
DEBOUNCE_TIME == 50

\* strip.getLengthTotal(), a setting of the host
StripLen == 4

\* number of LedTick steps explored
MaxTicksLED == 5

\* amounts of time (ms) that may pass between two polls of the button
LedDeltas == {60, 1000, 3001}

\* number of JSON states written to the LED Controller
MaxJsonWrites == 1

\* the members of the LED Controller; led.strip says which routine wrote the
\* pixel buffer last instead of holding the pixels: "off" (filled with 0 or
\* cleared), "flash" (flashOrange), "white" and "exit" (brightness
\* selection), "color" (updateColorMode), "pattern" (updatePatternMode).
\* bs_* are the function-local statics of enterBrightnessSelection(), the
\* plain names those of handleButton(), which shadow the class statics;
\* stripLen is strip.getLengthTotal()
LedConstructed ==
  [ enabled |-> TRUE,
    initDone |-> FALSE,
    currentMode |-> COLOR_SELECT,
    currentColor |-> WHITE,
    currentPattern |-> UNIFORM_BLINK,
    isActive |-> FALSE,
    isFlashingOrange |-> FALSE,
    inBrightnessSelection |-> FALSE,
    wledControlEnabled |-> FALSE,
    lastMode |-> COLOR_SELECT,
    lastColor |-> WHITE,
    lastPattern |-> UNIFORM_BLINK,
    buttonPressStart |-> 0,
    lastPatternUpdate |-> 0,
    position |-> 0,
    maxBrightness |-> 128,
    currentBrightnessLevel |-> 1,
    buttonWasPressed |-> FALSE,
    lastDebounceTime |-> 0,
    lastButtonState |-> TRUE,
    sleepTriggered |-> FALSE,
    isExitFlashing |-> FALSE,
    bs_lastButtonState |-> HIGH,
    bs_lastDebounceTime |-> 0,
    bs_buttonWasPressed |-> FALSE,
    stripBrightness |-> 255,
    strip |-> "off",
    stripLen |-> StripLen ]

\* history of the LED Controller: log holds what the last handler call did,
\* duration the press duration it handed to handleButtonPress() (-1: none),
\* jsonWrites the number of JSON states written.  toWledDue says that
\* currentColor has changed to WLED_MODE and enableWLEDControl() was not
\* called since, extraEnable that enableWLEDControl() was called without
\* such a change; fromWledDue and extraDisable are the same for changes
\* away from WLED_MODE and disableWLEDControl().  activeSnap is the mode,
\* color and pattern that were current when the device was last active,
\* sleptClean says that the device was put to sleep by the button and no
\* JSON state was written since, startedActive that the device was active
\* when the press tracked last was registered.  lastSample is the last reading of the
\* button and relNow says that it was "released" and taken at the present
\* value of the clock; runLow is the time at which the present run of
\* "pressed" readings began if the button was read "released" at that same
\* value of the clock and the loop polling the button was tracking no
\* press (-1 otherwise);
\* shortPending says that the last run of "pressed" readings began after
\* such a reading and was over less than DEBOUNCE_TIME later.
\* savedConfig is the configuration file of the host: empty, or the object
\* addToConfig() filled last; savedSettings is the mode, color, pattern and
\* brightness that were in effect then.  restarts counts the restarts,
\* configRead says that readFromConfig() was called since the last
\* construction, restored that it was called after a restart and found the
\* object
LedHistInit ==
  [ log |-> {},
    duration |-> -1,
    jsonWrites |-> 0,
    toWledDue |-> FALSE,
    extraEnable |-> FALSE,
    fromWledDue |-> FALSE,
    extraDisable |-> FALSE,
    activeSnap |-> <<COLOR_SELECT, WHITE, UNIFORM_BLINK>>,
    sleptClean |-> FALSE,
    startedActive |-> FALSE,
    lastSample |-> "none",
    relNow |-> FALSE,
    runLow |-> -1,
    shortPending |-> FALSE,
    savedConfig |-> <<>>,
    savedSettings |-> <<>>,
    restarts |-> 0,
    configRead |-> FALSE,
    restored |-> FALSE ]

\* the pattern routines: len is strip.getLengthTotal(), lit the set of the
\* pixels of the buffer that are not black, lastBlinkTime and lastRandomLed
\* the statics of updateRandomBlink().  pc says where the control thread is:
\* "idle" outside the routine, "draw" in its do-while loop.  History:
\* prevLit is what was lit before the last strip.clear() of the routine,
\* rerolled says that the last redraw drew an index more than once.  The
\* specifications of the button handling above leave the record alone:
\* there led.strip stands for the pixel buffer.  i2sInitialized is the
\* member of that name, samples the magnitude the samples of the audio
\* buffer have (the routines use nothing but the average of the magnitudes),
\* smoothedBrightness the member of that name as a fraction, soundLastLed
\* the static lastRandomLed of updateSoundReactiveRandom(),
\* i2sPins the four pin settings, cycleColors the static palette of
\* setCycleColors() (empty until the first call fills it), shown the color
\* setCycleColors() wrote to every pixel last.  History: shownAt is the
\* value of the clock in that call (-1 before the first), chaserWindow the
\* set of pixels the last updateChaser() wrote after clearing the strip,
\* chaserFrom the position it began with, chaserAt the value of the clock
\* then (-1 before the first), chaserGap the time between the last two
\* calls of updateChaser() (-1 before the second), chaserDraws the number
\* of calls of updateChaser() in the last call of loop(),
\* i2sFailing is the set of operations that failed in the last call of
\* initializeI2S(), calls the set of the driver and strip functions the
\* last sound-reactive routine called
\* the I2S pins as constructed: SD, WS, SCK, and no MCLK
I2sPinsDefault == [sd |-> 5, ws |-> 4, sck |-> 6, mclk |-> -1]

PatConstructed ==
  [ len |-> StripLen,
    lit |-> {},
    lastBlinkTime |-> 0,
    lastRandomLed |-> -1,
    pc |-> "idle",
    prevLit |-> {},
    rerolled |-> FALSE,
    i2sInitialized |-> FALSE,
    i2sPins |-> I2sPinsDefault,
    samples |-> 0,
    smoothedBrightness |-> Rat(0, 1),
    soundLastLed |-> -1,
    cycleColors |-> <<>>,
    shown |-> 0,
    shownAt |-> -1,
    chaserWindow |-> {},
    chaserFrom |-> -1,
    chaserAt |-> -1,
    chaserGap |-> -1,
    chaserDraws |-> 0,
    i2sFailing |-> {},
    calls |-> {},
    rainbowColors |-> <<>>,
    gcRainbowColors |-> <<>>,
    gcCycleColors |-> <<>>,
    pixels |-> <<>>,
    shownBy |-> "none" ]

\* the record the handlers work on: the members plus what the call did
Work(l) == l @@ [log |-> {}, duration |-> -1, calls |-> <<>>, drawn |-> <<>>]

\* the members of a working record
Members(s) == [f \in DOMAIN LedConstructed |-> s[f]]

Tag(s, t) == [s EXCEPT !.log = @ \cup {t}]

\* void enableWLEDControl(): the mode of the host's main segment is not
\* modelled
enableWLEDControl(s) == [s EXCEPT !.calls = Append(@, "enable")]

\* void disableWLEDControl(): clears the main segment
disableWLEDControl(s) ==
  [s EXCEPT !.calls = Append(@, "disable"), !.strip = "off"]

\* void setAllLEDs(uint32_t color)
setAllLEDs(s, what) == [s EXCEPT !.strip = what]

\* void updateColorMode()
updateColorMode(s) ==
  IF s.currentColor = WLED_MODE THEN s ELSE setAllLEDs(s, "color")

\* position advances without the modulo
updateChaser_NoWrap(s) ==
  [s EXCEPT !.drawn = Append(@, [from |-> s.position,
                                  pixels |-> {(s.position + i) % s.stripLen :
                                                i \in 0..2}]),
            !.position = @ + 1]

\* void updateChaser(): the set of the pixels it writes after strip.clear()
\* is appended to drawn
updateChaser(s) ==
  [s EXCEPT !.drawn = Append(@, [from |-> s.position,
                                  pixels |-> {(s.position + i) % s.stripLen :
                                                i \in 0..2}]),
            !.position = (@ + 1) % s.stripLen]

\* void updatePatternMode(): of the pattern routines only updateChaser()
\* writes a member (position)
updatePatternMode(s, ms) ==
  IF SubUL(ms, s.lastPatternUpdate) < PATTERN_INTERVAL THEN s
  ELSE LET a == [s EXCEPT !.lastPatternUpdate = ms, !.strip = "pattern"]
       IN  IF a.currentPattern = CHASER THEN updateChaser(a) ELSE a

\* void updateLEDs()
updateLEDs(s, ms) ==
  IF ~s.isActive \/ s.isFlashingOrange THEN s
  ELSE IF s.currentMode = COLOR_SELECT THEN updateColorMode(s)
  ELSE updatePatternMode(s, ms)

\* void flashOrange()
flashOrange(s) == setAllLEDs([s EXCEPT !.isFlashingOrange = TRUE], "flash")

\* void cycleBrightness()
cycleBrightness(s) ==
  LET level == (s.currentBrightnessLevel + 1) % 4
  IN  [s EXCEPT !.currentBrightnessLevel = level,
                !.maxBrightness = CASE level = 0 -> BRIGHTNESS_25
                                    [] level = 1 -> BRIGHTNESS_50
                                    [] level = 2 -> BRIGHTNESS_75
                                    [] level = 3 -> BRIGHTNESS_100,
                !.stripBrightness = 255]

enterSleep_StayActive(s) ==
  [s EXCEPT !.stripBrightness = 0,
            !.lastMode = s.currentMode,
            !.lastColor = s.currentColor,
            !.lastPattern = s.currentPattern,
            !.strip = "off"]

enterSleep_NoSnapshot(s) ==
  [s EXCEPT !.stripBrightness = 0,
            !.isActive = FALSE,
            !.lastColor = WHITE,
            !.strip = "off"]

\* the sleep sequence of handleButton() and of handleButtonPress()
enterSleep(s) ==
  [s EXCEPT !.stripBrightness = 0,
            !.isActive = FALSE,
            !.lastMode = s.currentMode,
            !.lastColor = s.currentColor,
            !.lastPattern = s.currentPattern,
            !.strip = "off"]

\* handleButtonPress(), device inactive, quick press: resume
wakeUp(s, ms) ==
  updateLEDs([s EXCEPT !.isActive = TRUE,
                       !.currentMode = s.lastMode,
                       !.currentColor = s.lastColor,
                       !.currentPattern = s.lastPattern,
                       !.stripBrightness = 255], ms)

\* enterBrightnessSelection() up to its while loop
enterBrightnessSelection(s) ==
  setAllLEDs([s EXCEPT !.inBrightnessSelection = TRUE,
                       !.isExitFlashing = FALSE,
                       !.stripBrightness = 255], "white")

quickPressActive_WrongCount(s, ms) ==
  IF s.currentMode = COLOR_SELECT
  THEN updateColorMode([s EXCEPT !.currentColor = (@ + 1) % (COLOR_COUNT + 1)])
  ELSE IF s.currentMode = PATTERN_SELECT
  THEN updatePatternMode(
         [s EXCEPT !.currentPattern = (@ + 1) % PATTERN_COUNT,
                   !.position = 0,
                   !.lastPatternUpdate = 0], ms)
  ELSE s

quickPressActive_ResetsOther(s, ms) ==
  IF s.currentMode = COLOR_SELECT
  THEN updateColorMode([s EXCEPT !.currentColor = (@ + 1) % COLOR_COUNT,
                                 !.currentPattern = UNIFORM_BLINK])
  ELSE IF s.currentMode = PATTERN_SELECT
  THEN updatePatternMode(
         [s EXCEPT !.currentPattern = (@ + 1) % PATTERN_COUNT,
                   !.currentColor = WHITE,
                   !.position = 0,
                   !.lastPatternUpdate = 0], ms)
  ELSE s

\* handleButtonPress(), device active, quick press; done is FALSE where the
\* code returns at once
quickPressActive(s, ms) ==
  IF s.currentMode = COLOR_SELECT
  THEN LET a == [s EXCEPT !.currentColor = (@ + 1) % COLOR_COUNT]
       IN  IF a.currentColor = WLED_MODE /\ ~a.wledControlEnabled
           THEN [enableWLEDControl(a) EXCEPT !.wledControlEnabled = TRUE,
                                             !.log = @ \cup {"returned"}]
           ELSE LET b == IF (a.lastColor = WLED_MODE /\ a.wledControlEnabled)
                            \/ (a.currentColor # WLED_MODE
                                /\ a.wledControlEnabled)
                         THEN [disableWLEDControl(a)
                                 EXCEPT !.wledControlEnabled = FALSE]
                         ELSE a
                IN  updateColorMode(b)
  ELSE IF s.currentMode = PATTERN_SELECT
  THEN LET a == [s EXCEPT !.currentPattern = (@ + 1) % PATTERN_COUNT,
                          !.position = 0,
                          !.lastPatternUpdate = 0]
           b == IF a.wledControlEnabled
                THEN [disableWLEDControl(a) EXCEPT !.wledControlEnabled = FALSE]
                ELSE a
       IN  updatePatternMode(b, ms)
  ELSE s

\* the long press entering pattern selection with the pattern and the
\* position left as they are
longPressActive_KeepsPattern(s, ms) ==
  IF s.currentMode = COLOR_SELECT
  THEN LET a == [s EXCEPT !.currentMode = PATTERN_SELECT,
                          !.lastPatternUpdate = 0]
           b == IF a.wledControlEnabled
                THEN [disableWLEDControl(a) EXCEPT !.wledControlEnabled = FALSE]
                ELSE a
       IN  updatePatternMode(b, ms)
  ELSE IF s.currentMode = PATTERN_SELECT
  THEN LET a == [s EXCEPT !.currentMode = COLOR_SELECT]
           b == IF a.wledControlEnabled /\ a.currentColor # WLED_MODE
                THEN [disableWLEDControl(a) EXCEPT !.wledControlEnabled = FALSE]
                ELSE a
       IN  updateColorMode(b)
  ELSE s

longPressActive_OneWay(s, ms) ==
  IF s.currentMode = COLOR_SELECT
  THEN updatePatternMode([s EXCEPT !.currentMode = PATTERN_SELECT,
                                   !.currentPattern = UNIFORM_BLINK,
                                   !.position = 0,
                                   !.lastPatternUpdate = 0], ms)
  ELSE s

\* handleButtonPress(), device active, long press
longPressActive(s, ms) ==
  IF s.currentMode = COLOR_SELECT
  THEN LET a == [s EXCEPT !.currentMode = PATTERN_SELECT,
                          !.currentPattern = UNIFORM_BLINK,
                          !.position = 0,
                          !.lastPatternUpdate = 0]
           b == IF a.wledControlEnabled
                THEN [disableWLEDControl(a) EXCEPT !.wledControlEnabled = FALSE]
                ELSE a
       IN  updatePatternMode(b, ms)
  ELSE IF s.currentMode = PATTERN_SELECT
  THEN LET a == [s EXCEPT !.currentMode = COLOR_SELECT]
           b == IF a.wledControlEnabled /\ a.currentColor # WLED_MODE
                THEN [disableWLEDControl(a) EXCEPT !.wledControlEnabled = FALSE]
                ELSE a
       IN  updateColorMode(b)
  ELSE s

\* handleButtonPress() taking every press of QUICK_PRESS_TIME or more as a
\* long press
handleButtonPress_NoDeadBand(s, duration, ms) ==
  LET t == [s EXCEPT !.duration = duration]
  IN  IF ~t.isActive
      THEN IF duration < QUICK_PRESS_TIME THEN wakeUp(t, ms)
           ELSE enterBrightnessSelection(t)
      ELSE IF duration < QUICK_PRESS_TIME THEN quickPressActive(t, ms)
           ELSE IF duration < SLEEP_PRESS_TIME THEN longPressActive(t, ms)
           ELSE enterSleep(t)

\* void handleButtonPress(unsigned long duration), up to the point where it
\* returns or starts waiting in enterBrightnessSelection(); its last line,
\* buttonPressStart = 0, is in afterButtonPress
handleButtonPress(s, duration, ms) ==
  LET t == [s EXCEPT !.duration = duration]
  IN  IF ~t.isActive
      THEN IF duration < QUICK_PRESS_TIME THEN wakeUp(t, ms)
           ELSE IF duration >= LONG_PRESS_TIME THEN enterBrightnessSelection(t)
           ELSE t
      ELSE IF duration < QUICK_PRESS_TIME THEN quickPressActive(t, ms)
           ELSE IF duration >= LONG_PRESS_TIME /\ duration < SLEEP_PRESS_TIME
           THEN longPressActive(t, ms)
           ELSE IF duration >= SLEEP_PRESS_TIME THEN enterSleep(t)
           ELSE t

\* what follows a handleButtonPress() call that has come back: its last
\* line unless it returned early, then the end of handleButton()'s release
\* branch and handleButton()'s last line (the reading was "released")
afterButtonPress(s) ==
  [s EXCEPT !.buttonPressStart = IF "returned" \in s.log THEN @ ELSE 0,
            !.buttonWasPressed = FALSE,
            !.lastButtonState = FALSE]

\* handleButton() whose release branch leaves isFlashingOrange as it is
handleButton_FlashKept(s, pressed, ms) ==
  LET s1 == IF pressed # s.lastButtonState
            THEN [s EXCEPT !.lastDebounceTime = ms] ELSE s
      stable == SubUL(ms, s1.lastDebounceTime) > DEBOUNCE_TIME
      s2 == IF stable /\ pressed /\ ~s1.buttonWasPressed
            THEN Tag([s1 EXCEPT !.buttonPressStart = ms,
                                !.buttonWasPressed = TRUE,
                                !.sleepTriggered = FALSE,
                                !.isFlashingOrange = FALSE], "press_start")
            ELSE s1
      held == SubUL(ms, s2.buttonPressStart)
      s3 == IF stable /\ pressed /\ s2.buttonWasPressed
            THEN IF held > SLEEP_PRESS_TIME /\ ~s2.sleepTriggered
                 THEN Tag([enterSleep(s2) EXCEPT !.sleepTriggered = TRUE],
                          "sleep_triggered")
                 ELSE IF held > LONG_PRESS_TIME /\ held <= SLEEP_PRESS_TIME
                 THEN flashOrange(s2)
                 ELSE s2
            ELSE s2
  IN  IF stable /\ ~pressed /\ s3.buttonWasPressed
      THEN LET pressDuration == SubUL(ms, s3.buttonPressStart)
               r == Tag(s3, "release")
           IN  IF pressDuration >= DEBOUNCE_TIME
               THEN IF ~r.sleepTriggered
                    THEN LET g == handleButtonPress(r, pressDuration, ms)
                         IN  IF g.inBrightnessSelection THEN g
                             ELSE afterButtonPress(g)
                    ELSE [r EXCEPT !.buttonWasPressed = FALSE,
                                   !.lastButtonState = pressed]
               ELSE [r EXCEPT !.buttonWasPressed = FALSE,
                              !.lastButtonState = pressed]
      ELSE [s3 EXCEPT !.lastButtonState = pressed]

\* void handleButton(): pressed is !digitalRead(BTN_PIN).  Where the call
\* starts waiting in enterBrightnessSelection() the rest of it runs when the
\* wait ends (afterButtonPress)
handleButton(s, pressed, ms) ==
  LET s1 == IF pressed # s.lastButtonState
            THEN [s EXCEPT !.lastDebounceTime = ms] ELSE s
      stable == SubUL(ms, s1.lastDebounceTime) > DEBOUNCE_TIME
      s2 == IF stable /\ pressed /\ ~s1.buttonWasPressed
            THEN Tag([s1 EXCEPT !.buttonPressStart = ms,
                                !.buttonWasPressed = TRUE,
                                !.sleepTriggered = FALSE,
                                !.isFlashingOrange = FALSE], "press_start")
            ELSE s1
      held == SubUL(ms, s2.buttonPressStart)
      s3 == IF stable /\ pressed /\ s2.buttonWasPressed
            THEN IF held > SLEEP_PRESS_TIME /\ ~s2.sleepTriggered
                 THEN Tag([enterSleep(s2) EXCEPT !.sleepTriggered = TRUE],
                          "sleep_triggered")
                 ELSE IF held > LONG_PRESS_TIME /\ held <= SLEEP_PRESS_TIME
                 THEN flashOrange(s2)
                 ELSE s2
            ELSE s2
  IN  IF stable /\ ~pressed /\ s3.buttonWasPressed
      THEN LET pressDuration == SubUL(ms, s3.buttonPressStart)
               r == Tag(s3, "release")
           IN  IF pressDuration >= DEBOUNCE_TIME
               THEN LET f == [(IF r.isFlashingOrange
                                 THEN Tag(r, "flash_cleared") ELSE r)
                                EXCEPT !.isFlashingOrange = FALSE]
                    IN  IF ~f.sleepTriggered
                        THEN LET g == handleButtonPress(f, pressDuration, ms)
                             IN  IF g.inBrightnessSelection THEN g
                                 ELSE afterButtonPress(g)
                        ELSE [f EXCEPT !.buttonWasPressed = FALSE,
                                       !.lastButtonState = pressed]
               ELSE [r EXCEPT !.buttonWasPressed = FALSE,
                              !.lastButtonState = pressed]
      ELSE [s3 EXCEPT !.lastButtonState = pressed]

\* loop() after its handleButton() call
loopTail(s, ms) ==
  IF s.isActive /\ ~s.isFlashingOrange /\ ~s.inBrightnessSelection
  THEN IF s.currentColor = WLED_MODE
       THEN IF ~s.wledControlEnabled
            THEN [enableWLEDControl(s) EXCEPT !.wledControlEnabled = TRUE]
            ELSE s
       ELSE LET a == IF s.wledControlEnabled
                     THEN [disableWLEDControl(s)
                             EXCEPT !.wledControlEnabled = FALSE]
                     ELSE s
            IN  IF a.currentMode = COLOR_SELECT THEN updateColorMode(a)
                ELSE IF a.currentMode = PATTERN_SELECT
                THEN updatePatternMode(a, ms)
                ELSE a
  ELSE s

\* the brightness loop leaving mode, color and pattern alone on exit
brightnessPass_NoRestore(s, pressed, ms) ==
  LET s1 == IF pressed # s.bs_lastButtonState
            THEN [s EXCEPT !.bs_lastDebounceTime = ms] ELSE s
      stable == SubUL(ms, s1.bs_lastDebounceTime) > 50
      s2 == IF stable /\ pressed /\ ~s1.bs_buttonWasPressed
            THEN Tag([s1 EXCEPT !.buttonPressStart = ms,
                                !.bs_buttonWasPressed = TRUE,
                                !.isExitFlashing = FALSE], "press_start")
            ELSE s1
      s3 == IF stable /\ pressed /\ s2.bs_buttonWasPressed
               /\ SubUL(ms, s2.buttonPressStart) > LONG_PRESS_TIME
               /\ ~s2.isExitFlashing
            THEN setAllLEDs([s2 EXCEPT !.isExitFlashing = TRUE], "exit")
            ELSE s2
      pressDuration == SubUL(ms, s3.buttonPressStart)
      s4 == IF stable /\ ~pressed /\ s3.bs_buttonWasPressed
            THEN LET r == [Tag(s3, "release")
                             EXCEPT !.bs_buttonWasPressed = FALSE]
                 IN  IF pressDuration >= 50
                     THEN IF pressDuration < QUICK_PRESS_TIME
                          THEN setAllLEDs(
                                 cycleBrightness(
                                   [r EXCEPT !.duration = pressDuration]),
                                 "white")
                          ELSE IF pressDuration >= LONG_PRESS_TIME
                          THEN updateLEDs(
                                 [r EXCEPT !.duration = pressDuration,
                                           !.inBrightnessSelection = FALSE,
                                           !.isActive = TRUE],
                                 ms)
                          ELSE [r EXCEPT !.duration = pressDuration]
                     ELSE r
            ELSE s3
      s5 == [s4 EXCEPT !.bs_lastButtonState = pressed]
  IN  IF s5.inBrightnessSelection THEN s5
      ELSE loopTail(afterButtonPress(s5), ms)

\* one pass of the while loop of enterBrightnessSelection(); when the pass
\* ends the loop, the calls that were waiting for it finish: the rest of
\* handleButtonPress(), of handleButton() and of loop()
brightnessPass(s, pressed, ms) ==
  LET s1 == IF pressed # s.bs_lastButtonState
            THEN [s EXCEPT !.bs_lastDebounceTime = ms] ELSE s
      stable == SubUL(ms, s1.bs_lastDebounceTime) > 50
      s2 == IF stable /\ pressed /\ ~s1.bs_buttonWasPressed
            THEN Tag([s1 EXCEPT !.buttonPressStart = ms,
                                !.bs_buttonWasPressed = TRUE,
                                !.isExitFlashing = FALSE], "press_start")
            ELSE s1
      s3 == IF stable /\ pressed /\ s2.bs_buttonWasPressed
               /\ SubUL(ms, s2.buttonPressStart) > LONG_PRESS_TIME
               /\ ~s2.isExitFlashing
            THEN setAllLEDs([s2 EXCEPT !.isExitFlashing = TRUE], "exit")
            ELSE s2
      pressDuration == SubUL(ms, s3.buttonPressStart)
      s4 == IF stable /\ ~pressed /\ s3.bs_buttonWasPressed
            THEN LET r == [Tag(s3, "release")
                             EXCEPT !.bs_buttonWasPressed = FALSE]
                 IN  IF pressDuration >= 50
                     THEN IF pressDuration < QUICK_PRESS_TIME
                          THEN setAllLEDs(
                                 cycleBrightness(
                                   [r EXCEPT !.duration = pressDuration]),
                                 "white")
                          ELSE IF pressDuration >= LONG_PRESS_TIME
                          THEN updateLEDs(
                                 [r EXCEPT !.duration = pressDuration,
                                           !.inBrightnessSelection = FALSE,
                                           !.isActive = TRUE,
                                           !.currentMode = r.lastMode,
                                           !.currentColor = r.lastColor,
                                           !.currentPattern = r.lastPattern],
                                 ms)
                          ELSE [r EXCEPT !.duration = pressDuration]
                     ELSE r
            ELSE s3
      s5 == [s4 EXCEPT !.bs_lastButtonState = pressed]
  IN  IF s5.inBrightnessSelection THEN s5
      ELSE loopTail(afterButtonPress(s5), ms)

\* void loop() of the LED Controller
ledLoop(s, pressed, ms) ==
  LET h == handleButton(Tag(s, "loop"), pressed, ms)
  IN  IF h.inBrightnessSelection THEN h ELSE loopTail(h, ms)

\* ----------------------------------------------------------------- Init
Init ==
  /\ now = 0
  /\ ticks = 0
  /\ setupCalled = FALSE
  /\ enabled = TRUE
  /\ initDone = FALSE
  /\ lastActivityTime = 0
  /\ lastInputCheck = 0
  /\ inputCheckInterval = 100
  /\ shutdownDelay = 5000
  /\ lastBatteryCheck = 0
  /\ batteryCheckInterval = 10000
  /\ lastInputState = HIGH
  /\ inputLowStartTime = 0
  /\ shutdownTriggered = FALSE
  /\ lowBatteryShutdown = FALSE
  /\ currentBatteryVoltage = Rat(0, 1)
  /\ lastBatteryVoltage = Rat(0, 1)
  /\ configEnabled = TRUE
  /\ configOutputPin = 33
  /\ configInputPin = 35
  /\ configVbatPin = 7
  /\ configKeepAlivePin = 1
  /\ configShutdownDelay = 5000
  /\ configLowBatteryThreshold = Rat(32, 10)
  /\ configKeepAliveTimeout = 360000
  /\ outputPin \in {LOW, HIGH}     \* the pins are not driven before setup()
  /\ keepAlivePin \in {LOW, HIGH}
  /\ vbatAdc = -1
  /\ log = {}
  /\ sampleLowSince = -1
  /\ kaShutdown = FALSE
  /\ idleExceeded = FALSE
  /\ led = LedConstructed
  /\ ledHist = LedHistInit
  /\ pat = PatConstructed

\* -------------------------------------------------------------- actions
\* time passes
Tick(d) ==
  /\ ticks < MaxTicks
  /\ ticks' = ticks + 1
  /\ now' = AddUL(now, d)
  /\ idleExceeded' = (idleExceeded \/
        (initDone /\ SubUL(AddUL(now, d), lastActivityTime) >= 360000))
  /\ log' = {}
  /\ UNCHANGED <<setupCalled, enabled, initDone, cfgVars, memberVars,
                 fixedVars, ledVars, patVars, vbatAdc, sampleLowSince, kaShutdown>>

\* void setup(), called once at boot
Setup ==
  /\ ~setupCalled
  /\ setupCalled' = TRUE
  /\ log' = {}
  /\ IF ~enabled
     THEN UNCHANGED <<initDone, memberVars>>
     ELSE /\ outputPin' = HIGH
          /\ keepAlivePin' = HIGH
          /\ lastActivityTime' = now
          /\ initDone' = TRUE
          /\ UNCHANGED <<lastInputCheck, lastBatteryCheck, lastInputState,
                         inputLowStartTime, shutdownTriggered,
                         lowBatteryShutdown, currentBatteryVoltage>>
  /\ UNCHANGED <<now, ticks, enabled, cfgVars, fixedVars, ledVars, patVars, vbatAdc, histVars>>

\* void loop(): updating is strip.isUpdating(), cur is the level of the
\* input pin, adcValue the reading of the battery pin
Loop(updating, cur, adcValue) ==
  /\ setupCalled
  /\ IF ~enabled \/ ~initDone \/ updating
     THEN /\ log' = {}
          /\ UNCHANGED <<memberVars, vbatAdc, histVars>>
     ELSE LET s == loopBody(Self, cur, adcValue, now)
          IN  /\ log' = s.log
              /\ vbatAdc' = IF "battery_check" \in s.log THEN adcValue
                            ELSE vbatAdc
              /\ lastInputCheck' = s.lastInputCheck
              /\ lastBatteryCheck' = s.lastBatteryCheck
              /\ lastInputState' = s.lastInputState
              /\ inputLowStartTime' = s.inputLowStartTime
              /\ shutdownTriggered' = s.shutdownTriggered
              /\ lowBatteryShutdown' = s.lowBatteryShutdown
              /\ currentBatteryVoltage' = s.currentBatteryVoltage
              /\ outputPin' = s.outputPin
              /\ keepAlivePin' = s.keepAlivePin
              /\ lastActivityTime' = s.lastActivityTime
              /\ sampleLowSince' =
                   IF "input_check" \in s.log
                   THEN IF cur = HIGH THEN -1
                        ELSE IF sampleLowSince = -1 THEN now
                        ELSE sampleLowSince
                   ELSE sampleLowSince
              /\ kaShutdown' = (kaShutdown \/ "keep_alive_timeout" \in s.log)
              /\ UNCHANGED idleExceeded
  /\ UNCHANGED <<now, ticks, setupCalled, enabled, initDone, cfgVars,
                 fixedVars, ledVars, patVars>>

\* void updateKeepAliveTimer()
UpdateKeepAliveTimer ==
  /\ setupCalled
  /\ lastActivityTime' = now
  /\ log' = {}
  /\ UNCHANGED <<now, ticks, setupCalled, enabled, initDone, cfgVars,
                 lastInputCheck, lastBatteryCheck, lastInputState,
                 inputLowStartTime, shutdownTriggered, lowBatteryShutdown,
                 currentBatteryVoltage, outputPin, keepAlivePin,
                 fixedVars, ledVars, patVars, vbatAdc, histVars>>

\* bool readFromConfig(JsonObject& root): isNull is top.isNull()
ReadFromConfig(isNull, obj) ==
  /\ IF isNull THEN UNCHANGED cfgVars ELSE readObject(obj)
  /\ log' = {}
  /\ UNCHANGED <<now, ticks, setupCalled, enabled, initDone, memberVars,
                 fixedVars, ledVars, patVars, vbatAdc, histVars>>

\* void readFromJsonState(JsonObject& root): isNull is usermod.isNull()
ReadFromJsonState(isNull, obj) ==
  /\ IF ~initDone \/ isNull THEN UNCHANGED cfgVars ELSE readObject(obj)
  /\ log' = {}
  /\ UNCHANGED <<now, ticks, setupCalled, enabled, initDone, memberVars,
                 fixedVars, ledVars, patVars, vbatAdc, histVars>>

\* the pin and ADC readings matter only to a loop() call that is not skipped,
\* the JSON object only when it is present, so one value stands for all there
Next ==
  \/ \E d \in Deltas : Tick(d)
  \/ Setup
  \/ \E cur \in {LOW, HIGH}, adcValue \in AdcValues : Loop(FALSE, cur, adcValue)
  \/ Loop(TRUE, HIGH, 2048)
  \/ UpdateKeepAliveTimer
  \/ \E obj \in JsonObjects : ReadFromConfig(FALSE, obj) \/ ReadFromJsonState(FALSE, obj)
  \/ ReadFromConfig(TRUE, <<>>) \/ ReadFromJsonState(TRUE, <<>>)

Spec == Init /\ [][Next]_vars

\* ------------------------------------------- the battery check alone
\* the states in which a battery check can start: after setup(), with the
\* latch set or not, the two outputs HIGH or LOW, and any reading of the
\* 12-bit ADC about to be returned by analogRead(VBAT_PIN)
InitBattery ==
  /\ now = 0
  /\ ticks = 0
  /\ setupCalled = TRUE
  /\ enabled = TRUE
  /\ initDone = TRUE
  /\ lastActivityTime = 0
  /\ lastInputCheck = 0
  /\ inputCheckInterval = 100
  /\ shutdownDelay = 5000
  /\ lastBatteryCheck = 0
  /\ batteryCheckInterval = 10000
  /\ lastInputState = HIGH
  /\ inputLowStartTime = 0
  /\ shutdownTriggered = FALSE
  /\ lowBatteryShutdown \in BOOLEAN
  /\ currentBatteryVoltage = Rat(0, 1)
  /\ lastBatteryVoltage = Rat(0, 1)
  /\ configEnabled = TRUE
  /\ configOutputPin = 33
  /\ configInputPin = 35
  /\ configVbatPin = 7
  /\ configKeepAlivePin = 1
  /\ configShutdownDelay = 5000
  /\ configLowBatteryThreshold = Rat(32, 10)
  /\ configKeepAliveTimeout = 360000
  /\ outputPin \in {LOW, HIGH}
  /\ keepAlivePin = outputPin
  /\ vbatAdc \in 0..ADC_MAX_VALUE
  /\ log = {}
  /\ sampleLowSince = -1
  /\ kaShutdown = FALSE
  /\ idleExceeded = FALSE
  /\ led = LedConstructed
  /\ ledHist = LedHistInit
  /\ pat = PatConstructed

\* one call of checkBatteryVoltage() that reads vbatAdc
BatteryCheck ==
  /\ log = {}
  /\ LET s == checkBatteryVoltage([Self EXCEPT !.log = {"battery_check"}],
                                  vbatAdc)
     IN  /\ log' = s.log
         /\ lowBatteryShutdown' = s.lowBatteryShutdown
         /\ currentBatteryVoltage' = s.currentBatteryVoltage
         /\ outputPin' = s.outputPin
         /\ keepAlivePin' = s.keepAlivePin
  /\ UNCHANGED <<now, ticks, setupCalled, enabled, initDone, cfgVars,
                 lastActivityTime, lastInputCheck, lastBatteryCheck,
                 lastInputState, inputLowStartTime, shutdownTriggered,
                 fixedVars, ledVars, patVars, vbatAdc, histVars>>

NextBattery == BatteryCheck

SpecBattery == InitBattery /\ [][NextBattery]_vars

\* bookkeeping of the history
CountCalls(calls, what) ==
  Cardinality({i \in DOMAIN calls : calls[i] = what})

\* the history after a handler call that took the members from l to s;
\* byButton says that the call was loop() or a pass of the brightness loop
histAfter(h, l, s, byButton) ==
  LET toDue == h.toWledDue \/ (l.currentColor # WLED_MODE
                                /\ s.currentColor = WLED_MODE)
      fromDue == h.fromWledDue \/ (l.currentColor = WLED_MODE
                                    /\ s.currentColor # WLED_MODE)
      enables == CountCalls(s.calls, "enable")
      disables == CountCalls(s.calls, "disable")
  IN  [h EXCEPT
         !.log = s.log,
         !.duration = s.duration,
         !.jsonWrites = IF byButton THEN @ ELSE @ + 1,
         !.toWledDue = toDue /\ enables = 0,
         !.extraEnable = @ \/ enables > (IF toDue THEN 1 ELSE 0),
         !.fromWledDue = fromDue /\ disables = 0,
         !.extraDisable = @ \/ disables > (IF fromDue THEN 1 ELSE 0),
         !.activeSnap = IF s.isActive
                        THEN <<s.currentMode, s.currentColor,
                               s.currentPattern>>
                        ELSE @,
         !.sleptClean = IF s.isActive \/ ~byButton THEN FALSE
                        ELSE IF l.isActive THEN TRUE
                        ELSE @,
         !.startedActive = IF "press_start" \in s.log THEN l.isActive
                           ELSE @ ]

\* the history of the readings of the button after one more reading at ms,
\* l being the members before the call that took it
sampleAfter(h, l, pressed, ms) ==
  IF pressed
  THEN [h EXCEPT
          !.lastSample = "pressed",
          !.relNow = FALSE,
          !.shortPending = FALSE,
          !.runLow = IF h.lastSample = "pressed" THEN @
                     ELSE IF h.relNow
                             /\ ~(IF l.inBrightnessSelection
                                  THEN l.bs_buttonWasPressed
                                  ELSE l.buttonWasPressed)
                     THEN ms
                     ELSE -1]
  ELSE [h EXCEPT
          !.lastSample = "released",
          !.relNow = TRUE,
          !.runLow = -1,
          !.shortPending = IF h.lastSample = "pressed"
                           THEN h.runLow # -1
                                /\ SubUL(ms, h.runLow) < DEBOUNCE_TIME
                           ELSE @]

\* the states of the JSON API the model offers to readFromJsonState()
LedJsonObjects ==
  { [active |-> TRUE, color |-> WLED_MODE],
    [active |-> FALSE, pattern |-> CHASER, brightness |-> BRIGHTNESS_100],
    [active |-> TRUE, mode |-> PATTERN_SELECT, color |-> BLUE,
     pattern |-> RANDOM_BLINK] }

\* the Power Management usermod is left out of the LED Controller's
\* specification
pmVars == <<setupCalled, enabled, initDone, cfgVars, memberVars, fixedVars,
            vbatAdc, log, histVars>>

\* the LED Controller after construction
InitLED ==
  /\ Init
  /\ outputPin = LOW
  /\ keepAlivePin = LOW

\* time passes
LedTick(d) ==
  /\ ticks < MaxTicksLED
  /\ ticks' = ticks + 1
  /\ now' = AddUL(now, d)
  /\ ledHist' = [ledHist EXCEPT !.log = {}, !.duration = -1,
                                !.relNow = FALSE]
  /\ UNCHANGED <<led, pmVars, patVars>>

\* bool initializeI2S() of the ESP32 build: pins are the four pin settings,
\* failing the set of the operations that fail when tried: the allocation
\* of a pin by PinManager::allocatePin ("sd", "ws", "sck", "mclk"),
\* i2s_driver_install ("install"), i2s_set_pin ("set_pin")
initializeI2S(pins, failing) ==
  IF pins.sd < 0 \/ pins.ws < 0 \/ pins.sck < 0 THEN FALSE
  ELSE IF "sd" \in failing \/ "ws" \in failing \/ "sck" \in failing
  THEN FALSE
  ELSE IF pins.mclk >= 0 /\ "mclk" \in failing THEN FALSE
  ELSE IF "install" \in failing THEN FALSE
  ELSE IF "set_pin" \in failing THEN FALSE
  ELSE TRUE

\* setup() gives up when the I2S driver could not be started
LedSetup_StopOnFailure(failing) ==
  /\ ~led.initDone
  /\ led' = IF initializeI2S(pat.i2sPins, failing)
            THEN [led EXCEPT !.isActive = FALSE, !.strip = "off",
                             !.initDone = TRUE]
            ELSE led
  /\ pat' = [pat EXCEPT !.i2sInitialized = initializeI2S(pat.i2sPins,
                                                        failing),
                        !.i2sFailing = failing]
  /\ ledHist' = [ledHist EXCEPT !.log = {}, !.duration = -1]
  /\ UNCHANGED <<now, ticks, pmVars>>

\* void setup() of the LED Controller, the operations of failing failing
LedSetup(failing) ==
  /\ ~led.initDone
  /\ led' = [led EXCEPT !.isActive = FALSE, !.strip = "off",
                        !.initDone = TRUE]
  /\ pat' = [pat EXCEPT !.i2sInitialized = initializeI2S(pat.i2sPins,
                                                        failing),
                        !.i2sFailing = failing]
  /\ ledHist' = [ledHist EXCEPT !.log = {}, !.duration = -1]
  /\ UNCHANGED <<now, ticks, pmVars>>

\* void loop() of the LED Controller: updating is strip.isUpdating(),
\* pressed the reading of the button.  The host calls it after setup() and
\* cannot call it while an earlier call waits in enterBrightnessSelection()
LedLoop(updating, pressed) ==
  /\ led.initDone
  /\ ~led.inBrightnessSelection
  /\ IF ~led.enabled \/ updating
     THEN /\ ledHist' = [ledHist EXCEPT !.log = {}, !.duration = -1]
          /\ UNCHANGED led
     ELSE LET s == ledLoop(Work(led), pressed, now)
          IN  /\ led' = Members(s)
              /\ ledHist' = sampleAfter(histAfter(ledHist, led, s, TRUE),
                                        led, pressed, now)
  /\ UNCHANGED <<now, ticks, pmVars, patVars>>

\* one pass of the wait loop of enterBrightnessSelection()
BrightnessPass(pressed) ==
  /\ led.inBrightnessSelection
  /\ LET s == brightnessPass(Tag(Work(led), "pass"), pressed, now)
     IN  /\ led' = Members(s)
         /\ ledHist' = sampleAfter(histAfter(ledHist, led, s, TRUE),
                                   led, pressed, now)
  /\ UNCHANGED <<now, ticks, pmVars, patVars>>

\* void readFromJsonState(JsonObject& root) of the LED Controller: isNull is
\* state.isNull(); a callback of the host's loop, like loop()
LedReadFromJsonState(isNull, obj) ==
  /\ led.initDone
  /\ ~led.inBrightnessSelection
  /\ ledHist.jsonWrites < MaxJsonWrites
  /\ IF isNull
     THEN /\ ledHist' = [ledHist EXCEPT !.log = {}, !.duration = -1]
          /\ UNCHANGED led
     ELSE LET s == [Work(led) EXCEPT
                      !.enabled = JsonOr(obj, "enabled", @),
                      !.currentMode = JsonOr(obj, "mode", @),
                      !.currentColor = JsonOr(obj, "color", @),
                      !.currentPattern = JsonOr(obj, "pattern", @),
                      !.isActive = JsonOr(obj, "active", @),
                      !.maxBrightness = JsonOr(obj, "brightness", @),
                      !.log = {"json"}]
          IN  /\ led' = Members(s)
              /\ ledHist' = histAfter(ledHist, led, s, FALSE)
  /\ UNCHANGED <<now, ticks, pmVars, patVars>>

\* the I2S driver starts: what its failure changes is the subject of SpecI2S
NextLED ==
  \/ \E d \in LedDeltas : LedTick(d)
  \/ LedSetup({})
  \/ \E pressed \in BOOLEAN : LedLoop(FALSE, pressed)
  \/ LedLoop(TRUE, FALSE)
  \/ \E pressed \in BOOLEAN : BrightnessPass(pressed)
  \/ \E obj \in LedJsonObjects : LedReadFromJsonState(FALSE, obj)
  \/ LedReadFromJsonState(TRUE, <<>>)

SpecLED == InitLED /\ [][NextLED]_vars


\* ------------------------------------------ the device asleep, buttons only
\* the modes, colors and patterns the device is put to sleep from
SleepStates ==
  { <<COLOR_SELECT, BLUE, UNIFORM_BLINK>>,
    <<PATTERN_SELECT, WHITE, RANDOM_BLINK>>,
    <<COLOR_SELECT, WLED_MODE, CHASER>> }

\* the members after this run: the device is active with mode m, color c
\* and pattern p, the button is read pressed at 60 ms and still pressed at
\* 3061 ms, then released at 3061 ms and at 3121 ms
AsleepFrom(m, c, p) ==
  LET s0 == [Work(LedConstructed) EXCEPT !.initDone = TRUE,
                                         !.isActive = TRUE,
                                         !.currentMode = m,
                                         !.currentColor = c,
                                         !.currentPattern = p]
      s1 == ledLoop(s0, TRUE, 60)
      s2 == ledLoop(s1, TRUE, 3061)
      s3 == ledLoop(s2, FALSE, 3061)
      s4 == ledLoop(s3, FALSE, 3121)
  IN  Members(s4)

\* the Power Management usermod after construction
PmConstructed ==
  /\ setupCalled = FALSE
  /\ enabled = TRUE
  /\ initDone = FALSE
  /\ lastActivityTime = 0
  /\ lastInputCheck = 0
  /\ inputCheckInterval = 100
  /\ shutdownDelay = 5000
  /\ lastBatteryCheck = 0
  /\ batteryCheckInterval = 10000
  /\ lastInputState = HIGH
  /\ inputLowStartTime = 0
  /\ shutdownTriggered = FALSE
  /\ lowBatteryShutdown = FALSE
  /\ currentBatteryVoltage = Rat(0, 1)
  /\ lastBatteryVoltage = Rat(0, 1)
  /\ configEnabled = TRUE
  /\ configOutputPin = 33
  /\ configInputPin = 35
  /\ configVbatPin = 7
  /\ configKeepAlivePin = 1
  /\ configShutdownDelay = 5000
  /\ configLowBatteryThreshold = Rat(32, 10)
  /\ configKeepAliveTimeout = 360000
  /\ outputPin = LOW
  /\ keepAlivePin = LOW
  /\ vbatAdc = -1
  /\ log = {}
  /\ sampleLowSince = -1
  /\ kaShutdown = FALSE
  /\ idleExceeded = FALSE

\* the device has just been put to sleep with the button
InitAsleep ==
  /\ PmConstructed
  /\ now = 3121
  /\ ticks = 0
  /\ pat = PatConstructed
  /\ \E q \in SleepStates :
        /\ led = AsleepFrom(q[1], q[2], q[3])
        /\ ledHist = [LedHistInit EXCEPT !.activeSnap = q,
                                         !.sleptClean = TRUE,
                                         !.startedActive = TRUE,
                                         !.lastSample = "released",
                                         !.relNow = TRUE]

\* only the button acts on the sleeping device: no JSON state is written
NextAsleep ==
  \/ \E d \in LedDeltas : LedTick(d)
  \/ \E pressed \in BOOLEAN : LedLoop(FALSE, pressed)
  \/ \E pressed \in BOOLEAN : BrightnessPass(pressed)

SpecAsleep == InitAsleep /\ [][NextAsleep]_vars

\* ------------------------------- the two usermods under the host's thread
\* number of HostTick steps explored
MaxTicksHost == 5

\* amounts of time (ms) that may pass between two steps of the host's thread
HostDeltas == {1000, 360000}

\* the control thread never leaves the while loop
HostBlocked_Never == FALSE

\* the control thread is inside the while loop of enterBrightnessSelection()
\* and comes back to the host only when the loop ends
HostBlocked == led.inBrightnessSelection

\* both usermods right after the host has called their setup() at boot
InitHost ==
  /\ now = 0
  /\ ticks = 0
  /\ setupCalled = TRUE
  /\ enabled = TRUE
  /\ initDone = TRUE
  /\ lastActivityTime = 0
  /\ lastInputCheck = 0
  /\ inputCheckInterval = 100
  /\ shutdownDelay = 5000
  /\ lastBatteryCheck = 0
  /\ batteryCheckInterval = 10000
  /\ lastInputState = HIGH
  /\ inputLowStartTime = 0
  /\ shutdownTriggered = FALSE
  /\ lowBatteryShutdown = FALSE
  /\ currentBatteryVoltage = Rat(0, 1)
  /\ lastBatteryVoltage = Rat(0, 1)
  /\ configEnabled = TRUE
  /\ configOutputPin = 33
  /\ configInputPin = 35
  /\ configVbatPin = 7
  /\ configKeepAlivePin = 1
  /\ configShutdownDelay = 5000
  /\ configLowBatteryThreshold = Rat(32, 10)
  /\ configKeepAliveTimeout = 360000
  /\ outputPin = HIGH
  /\ keepAlivePin = HIGH
  /\ vbatAdc = -1
  /\ log = {}
  /\ sampleLowSince = -1
  /\ kaShutdown = FALSE
  /\ idleExceeded = FALSE
  /\ led = [LedConstructed EXCEPT !.initDone = TRUE]
  /\ ledHist = LedHistInit
  /\ pat = PatConstructed

\* time passes
HostTick(d) ==
  /\ ticks < MaxTicksHost
  /\ ticks' = ticks + 1
  /\ now' = AddUL(now, d)
  /\ idleExceeded' = (idleExceeded \/
        (initDone /\ SubUL(AddUL(now, d), lastActivityTime) >= 360000))
  /\ log' = {}
  /\ ledHist' = [ledHist EXCEPT !.log = {}, !.duration = -1,
                                !.relNow = FALSE]
  /\ UNCHANGED <<setupCalled, enabled, initDone, cfgVars, memberVars,
                 fixedVars, led, patVars, vbatAdc, sampleLowSince,
                 kaShutdown>>

\* the host calls loop() of the Power Management usermod: it can do so only
\* from its own loop, which the control thread must be in
HostPmLoop(cur, adcValue) ==
  /\ ~HostBlocked
  /\ Loop(FALSE, cur, adcValue)

\* the host calls loop() of either usermod, or the call of the LED
\* Controller's that it made earlier goes through one more pass of the
\* brightness loop; the battery is low all the time (every reading is 2048)
NextHost ==
  \/ \E d \in HostDeltas : HostTick(d)
  \/ \E cur \in {LOW, HIGH} : HostPmLoop(cur, 2048)
  \/ \E pressed \in BOOLEAN : LedLoop(FALSE, pressed)
  \/ \E pressed \in BOOLEAN : BrightnessPass(pressed)

SpecHost == InitHost /\ [][NextHost]_vars

\* ------------------------------------------------- the RandomBlink pattern
BLINK_INTERVAL == 200

\* the strip lengths tried
StripLens == {1, 2, 3}

\* number of PatTick steps explored
MaxTicksPattern == 4

\* amounts of time (ms) that may pass between two calls of updatePatternMode()
PatDeltas == {100, 200}

\* updateRandomBlink() up to its do-while loop
beginRandomBlink(p, ms) ==
  IF SubUL(ms, p.lastBlinkTime) >= BLINK_INTERVAL
  THEN [p EXCEPT !.prevLit = p.lit, !.lit = {}, !.pc = "draw",
                 !.rerolled = FALSE]
  ELSE p

\* the draw is taken whatever the index drawn before
randomDraw_NoReroll(p, r, ms) ==
  [p EXCEPT !.lit = {r}, !.lastRandomLed = r, !.lastBlinkTime = ms,
            !.pc = "idle"]

\* one pass of the do-while loop of updateRandomBlink(), r being what
\* random(strip.getLengthTotal()) returns, and what follows the loop when
\* the pass ends it
randomDraw(p, r, ms) ==
  IF r = p.lastRandomLed
  THEN [p EXCEPT !.rerolled = TRUE]
  ELSE [p EXCEPT !.lit = {r}, !.lastRandomLed = r, !.lastBlinkTime = ms,
                 !.pc = "idle"]

\* the press handler has just selected RANDOM_BLINK on the active device
\* (position = 0, lastPatternUpdate = 0) and is about to call
\* updatePatternMode(); the strip has any of the lengths tried
InitRandomBlink ==
  /\ PmConstructed
  /\ now = 5000
  /\ ticks = 0
  /\ led = [LedConstructed EXCEPT !.initDone = TRUE,
                                  !.isActive = TRUE,
                                  !.currentMode = PATTERN_SELECT,
                                  !.currentPattern = RANDOM_BLINK,
                                  !.stripBrightness = 255]
  /\ ledHist = LedHistInit
  /\ \E n \in StripLens : pat = [PatConstructed EXCEPT !.len = n]

\* time passes between two calls; the draws take none
PatTick(d) ==
  /\ ticks < MaxTicksPattern
  /\ pat.pc = "idle"
  /\ ticks' = ticks + 1
  /\ now' = AddUL(now, d)
  /\ UNCHANGED <<led, ledHist, pat, pmVars>>

\* void updatePatternMode() with currentPattern = RANDOM_BLINK, up to the
\* do-while loop of updateRandomBlink()
PatUpdatePatternMode ==
  /\ pat.pc = "idle"
  /\ led.currentPattern = RANDOM_BLINK
  /\ IF SubUL(now, led.lastPatternUpdate) < PATTERN_INTERVAL
     THEN UNCHANGED <<led, pat>>
     ELSE /\ led' = [led EXCEPT !.lastPatternUpdate = now,
                                !.strip = "pattern"]
          /\ pat' = beginRandomBlink(pat, now)
  /\ UNCHANGED <<now, ticks, ledHist, pmVars>>

\* one pass of the do-while loop
PatRandomDraw(r) ==
  /\ pat.pc = "draw"
  /\ pat' = randomDraw(pat, r, now)
  /\ UNCHANGED <<now, ticks, led, ledHist, pmVars>>

NextRandomBlink ==
  \/ \E d \in PatDeltas : PatTick(d)
  \/ PatUpdatePatternMode
  \/ \E r \in 0..(pat.len - 1) : PatRandomDraw(r)

SpecRandomBlink == InitRandomBlink /\ [][NextRandomBlink]_vars

\* ---------------------------------------------- the clock rolling over
\* number of WrapTick steps explored
MaxTicksWrap == 3

\* amounts of time (ms) that may pass between two handler calls
WrapDeltas == {30, 60, 1000, 10001, 360000}

\* how long before the rollover of millis() the runs begin
WrapLeads == {30, 500, 5000}

\* every time stamp of a run lies less than WrapWindow before the rollover
\* or, the runs being far shorter than the wrap period, after it
WrapWindow == 20000

\* the value a clock that does not wrap shows when millis() shows t, counted
\* from WrapWindow before the rollover
Unwrapped(t) ==
  IF t >= UL_MOD - WrapWindow THEN t - (UL_MOD - WrapWindow)
  ELSE t + WrapWindow

\* the LED Controller at time t, active in pattern-select mode with the
\* Chaser pattern, the button released for 3000 ms and the pattern redrawn
\* at t
ChaserAt(t) ==
  [LedConstructed EXCEPT !.initDone = TRUE,
                         !.isActive = TRUE,
                         !.currentMode = PATTERN_SELECT,
                         !.currentPattern = CHASER,
                         !.lastMode = PATTERN_SELECT,
                         !.lastPattern = CHASER,
                         !.lastButtonState = FALSE,
                         !.lastDebounceTime = SubUL(t, 3000),
                         !.lastPatternUpdate = t,
                         !.position = 1,
                         !.strip = "pattern"]

\* the LED Controller at time t, where a press of 1120 ms on the sleeping
\* device has just made it enter brightness selection, not for the first
\* time: the statics of the brightness loop are as the selection that ended
\* at t - 5000 left them
SelectingAt(t) ==
  LET s0 == [Work(LedConstructed) EXCEPT
               !.initDone = TRUE,
               !.stripBrightness = 0,
               !.lastButtonState = FALSE,
               !.lastDebounceTime = SubUL(t, 5000),
               !.bs_lastButtonState = FALSE,
               !.bs_lastDebounceTime = SubUL(t, 5000)]
      s1 == ledLoop(s0, TRUE, SubUL(t, 1180))
      s2 == ledLoop(s1, TRUE, SubUL(t, 1120))
      s3 == ledLoop(s2, FALSE, SubUL(t, 60))
      s4 == ledLoop(s3, FALSE, t)
  IN  Members(s4)

\* the Power Management usermod a long time after boot: loop() has run both
\* of its checks and activity was recorded at this very millisecond, the
\* pin is HIGH; the LED Controller is left out
InitWrapPm ==
  /\ setupCalled = TRUE
  /\ enabled = TRUE
  /\ initDone = TRUE
  /\ lastActivityTime = now
  /\ lastInputCheck = now
  /\ inputCheckInterval = 100
  /\ shutdownDelay = 5000
  /\ lastBatteryCheck = now
  /\ batteryCheckInterval = 10000
  /\ lastInputState = HIGH
  /\ inputLowStartTime = 0
  /\ shutdownTriggered = FALSE
  /\ lowBatteryShutdown = FALSE
  /\ currentBatteryVoltage = calibratedVoltage(3025)
  /\ lastBatteryVoltage = Rat(0, 1)
  /\ configEnabled = TRUE
  /\ configOutputPin = 33
  /\ configInputPin = 35
  /\ configVbatPin = 7
  /\ configKeepAlivePin = 1
  /\ configShutdownDelay = 5000
  /\ configLowBatteryThreshold = Rat(32, 10)
  /\ configKeepAliveTimeout = 360000
  /\ outputPin = HIGH
  /\ keepAlivePin = HIGH
  /\ vbatAdc = 3025
  /\ log = {}
  /\ sampleLowSince = -1
  /\ kaShutdown = FALSE
  /\ idleExceeded = FALSE
  /\ led = LedConstructed
  /\ ledHist = LedHistInit

\* the LED Controller a long time after boot; the Power Management usermod
\* is left out
InitWrapLed ==
  /\ PmConstructed
  /\ led \in {ChaserAt(now), SelectingAt(now)}
  /\ ledHist = [LedHistInit EXCEPT !.lastSample = "released",
                                   !.relNow = TRUE]

\* either usermod shortly before the clock rolls over
InitWrap ==
  /\ \E lead \in WrapLeads : now = UL_MOD - lead
  /\ ticks = 0
  /\ pat = PatConstructed
  /\ InitWrapPm \/ InitWrapLed

\* time passes
WrapTick(d) ==
  /\ ticks < MaxTicksWrap
  /\ ticks' = ticks + 1
  /\ now' = AddUL(now, d)
  /\ idleExceeded' = (idleExceeded \/
        (initDone /\ SubUL(AddUL(now, d), lastActivityTime) >= 360000))
  /\ log' = {}
  /\ ledHist' = [ledHist EXCEPT !.log = {}, !.duration = -1,
                                !.relNow = FALSE]
  /\ UNCHANGED <<setupCalled, enabled, initDone, cfgVars, memberVars,
                 fixedVars, led, patVars, vbatAdc, sampleLowSince,
                 kaShutdown>>

NextWrap ==
  \/ \E d \in WrapDeltas : WrapTick(d)
  \/ \E cur \in {LOW, HIGH}, adcValue \in AdcValues : Loop(FALSE, cur, adcValue)
  \/ UpdateKeepAliveTimer
  \/ \E pressed \in BOOLEAN : LedLoop(FALSE, pressed)
  \/ \E pressed \in BOOLEAN : BrightnessPass(pressed)

SpecWrap == InitWrap /\ [][NextWrap]_vars

\* ================================================================ claims

C2_OutputsStayLow ==
  lowBatteryShutdown => (outputPin = LOW /\ keepAlivePin = LOW)

\* C3: lowBatteryShutdown, once true, is true after every step.
C3_LatchMonotone == [][lowBatteryShutdown => lowBatteryShutdown']_vars

\* the latch is set and a later battery check has read a voltage above the
\* threshold
C3_Witness ==
  /\ lowBatteryShutdown
  /\ "battery_check" \in log
  /\ vbatAdc = 3025
  /\ ~RatLeq(currentBatteryVoltage, Rat(32, 10))

C5_KeepAliveLatched ==
  kaShutdown => (outputPin = LOW /\ keepAlivePin = LOW)

C7_ClearedOnlyOnRisingEdge ==
  [][ (shutdownTriggered /\ ~shutdownTriggered')
        => /\ "input_check" \in log'
           /\ lastInputState = LOW
           /\ lastInputState' = HIGH
           /\ sampleLowSince # -1
           /\ sampleLowSince' = -1
    ]_vars

\* the keep-alive check has set shutdownTriggered and a rising edge has
\* cleared it since
C7_Witness ==
  /\ kaShutdown
  /\ ~shutdownTriggered
  /\ lastInputState = HIGH

C9_BatteryThreshold ==
  [][ "battery_check" \in log' =>
        /\ IF ~lowBatteryShutdown /\ 86922 * vbatAdc' <= 262899000
           THEN lowBatteryShutdown' /\ outputPin' = LOW /\ keepAlivePin' = LOW
           ELSE /\ lowBatteryShutdown' = lowBatteryShutdown
                /\ outputPin' = outputPin
                /\ keepAlivePin' = keepAlivePin
        /\ vbatAdc' = 2048 =>
             /\ 216 * currentBatteryVoltage'.den <= 100 * currentBatteryVoltage'.num
             /\ 100 * currentBatteryVoltage'.num <= 217 * currentBatteryVoltage'.den
    ]_vars

\* the reading 2048 has latched low battery and driven both outputs LOW
C9_Witness ==
  /\ "low_battery" \in log
  /\ vbatAdc = 2048
  /\ lowBatteryShutdown
  /\ outputPin = LOW
  /\ keepAlivePin = LOW

\* C10 (as stated): the input check triggers shutdown exactly when the pin
\* has been LOW for the configured delay configShutdownDelay.
C10_ConfiguredDelay ==
  ("input_check" \in log /\ sampleLowSince # -1 /\ ~kaShutdown) =>
     (shutdownTriggered <=> SubUL(now, sampleLowSince) >= configShutdownDelay)

\* C11 (as stated): once readFromConfig or readFromJsonState has been given
\* "enabled": false, loop() performs no input-pin, battery or keep-alive
\* check and changes no output (no loop() call gets past its first line)
C11_DisabledLoopIdle == ~configEnabled => log = {}

\* ------------------------------------------------ LED Controller claims
\* what one press of the given duration does once its release is seen by
\* handleButton(): handleButtonPress() and the rest of the loop() call
pressReleased(s, duration, ms) ==
  LET g == handleButtonPress(s, duration, ms)
  IN  IF g.inBrightnessSelection THEN g
      ELSE loopTail(afterButtonPress(g), ms)

\* the durations of a long press tried by the algebraic claims
LongDurations == {LONG_PRESS_TIME, 1060, SLEEP_PRESS_TIME - 1}

RECURSIVE QuickPresses(_, _, _)
QuickPresses(s, n, ms) ==
  IF n = 0 THEN s
  ELSE QuickPresses(pressReleased(s, 120, ms), n - 1, ms)

\* C12 (as stated): from any currentColor, COLOR_COUNT quick presses in
\* color-select mode while active bring currentColor back to where it was
C12_TenPressesAnyColor ==
  (led.isActive /\ led.currentMode = COLOR_SELECT) =>
     QuickPresses(Work(led), COLOR_COUNT, now).currentColor = led.currentColor

\* C12 (amended): from any of the ten colors below COLOR_COUNT, COLOR_COUNT
\* quick presses in color-select mode while active bring currentColor back
\* to where it was, and no smaller number of presses does
C12_TenPressesCycle ==
  (led.isActive /\ led.currentMode = COLOR_SELECT
     /\ led.currentColor < COLOR_COUNT) =>
     /\ QuickPresses(Work(led), COLOR_COUNT, now).currentColor
          = led.currentColor
     /\ \A n \in 1..(COLOR_COUNT - 1) :
          QuickPresses(Work(led), n, now).currentColor # led.currentColor

\* C12 witness: a quick press has just advanced the color from WHITE in
\* color-select mode
C12_Witness ==
  /\ led.isActive
  /\ led.currentMode = COLOR_SELECT
  /\ "release" \in ledHist.log
  /\ ledHist.duration \in 0..(QUICK_PRESS_TIME - 1)
  /\ led.currentColor = WHITE + 1

\* a loop() call has just seen the release of a press that handleButton()
\* had not already answered with the sleep sequence
PressReleasedStep ==
  /\ "loop" \in ledHist'.log
  /\ "release" \in ledHist'.log
  /\ ledHist'.duration >= 0

\* C13: a quick press (under QUICK_PRESS_TIME) released while the device is
\* active advances only the enumeration of the current mode, by one modulo
\* its count: in color-select mode currentColor, in pattern-select mode
\* currentPattern modulo PATTERN_COUNT; the mode and the other enumeration
\* keep their values and the device stays active
C13_QuickPressAdvances ==
  [][(PressReleasedStep /\ led.isActive
        /\ ledHist'.duration < QUICK_PRESS_TIME) =>
       /\ led'.isActive
       /\ led'.currentMode = led.currentMode
       /\ led.currentMode = COLOR_SELECT =>
            /\ led'.currentColor = (led.currentColor + 1) % COLOR_COUNT
            /\ led'.currentPattern = led.currentPattern
       /\ led.currentMode = PATTERN_SELECT =>
            /\ led'.currentPattern = (led.currentPattern + 1) % PATTERN_COUNT
            /\ led'.currentColor = led.currentColor]_vars

\* C13 witness: a quick press has just advanced the pattern from
\* RANDOM_BLINK in pattern-select mode
C13_Witness ==
  /\ led.isActive
  /\ led.currentMode = PATTERN_SELECT
  /\ "release" \in ledHist.log
  /\ ledHist.duration \in 0..(QUICK_PRESS_TIME - 1)
  /\ led.currentPattern = RANDOM_BLINK + 1
  /\ led.currentColor = BLUE

C15_SleepOnLongHold ==
  [][/\ ("sleep_triggered" \in ledHist'.log /\ led.isActive) =>
          /\ ~led'.isActive
          /\ led'.strip = "off"
          /\ led'.stripBrightness = 0
          /\ <<led'.lastMode, led'.lastColor, led'.lastPattern>>
               = <<led.currentMode, led.currentColor, led.currentPattern>>
          /\ <<led'.currentMode, led'.currentColor, led'.currentPattern>>
               = <<led.currentMode, led.currentColor, led.currentPattern>>
     /\ ("loop" \in ledHist'.log /\ "release" \in ledHist'.log
           /\ SubUL(now, led.buttonPressStart) >= SLEEP_PRESS_TIME
           /\ \/ led.isActive /\ ~led.sleepTriggered
              \/ led.sleepTriggered /\ ledHist.sleptClean) =>
          /\ ~led'.isActive
          /\ led'.strip = "off"
          /\ <<led'.lastMode, led'.lastColor, led'.lastPattern>>
               = ledHist.activeSnap]_vars

\* C15 witness: the button was held beyond SLEEP_PRESS_TIME on a device
\* that was active in pattern-select mode with BLUE and RANDOM_BLINK, the
\* device went to sleep during the hold and the release has just been seen
C15_Witness ==
  /\ "release" \in ledHist.log
  /\ led.sleepTriggered
  /\ ledHist.sleptClean
  /\ ~led.isActive
  /\ led.strip = "off"
  /\ <<led.lastMode, led.lastColor, led.lastPattern>>
       = <<PATTERN_SELECT, BLUE, RANDOM_BLINK>>

\* C16: after the device was put to sleep from mode m, color c and pattern
\* p, a quick press (under QUICK_PRESS_TIME) released while it is inactive
\* makes it active with currentMode, currentColor and currentPattern equal
\* to m, c and p, whatever presses the button saw while it was inactive
C16_ResumeRestores ==
  [][(PressReleasedStep /\ ~led.isActive /\ ledHist.sleptClean
        /\ ledHist'.duration < QUICK_PRESS_TIME) =>
       /\ led'.isActive
       /\ <<led'.currentMode, led'.currentColor, led'.currentPattern>>
            = ledHist.activeSnap]_vars

\* C16 witness: the device that went to sleep in color-select mode with
\* color WLED_MODE and pattern CHASER has just been woken by a quick press
C16_Witness ==
  /\ "loop" \in ledHist.log
  /\ "release" \in ledHist.log
  /\ ledHist.duration \in 0..(QUICK_PRESS_TIME - 1)
  /\ led.isActive
  /\ ledHist.activeSnap = <<COLOR_SELECT, WLED_MODE, CHASER>>
  /\ <<led.currentMode, led.currentColor, led.currentPattern>>
       = <<COLOR_SELECT, WLED_MODE, CHASER>>

\* C17 (as stated): lastMode/lastColor/lastPattern are written only when
\* the device goes from active to inactive, so whenever it is inactive they
\* hold the mode, color and pattern that were current when it was last
\* active, after any sequence of button events and JSON state writes
C17_LastIsLastActive ==
  ~led.isActive =>
     <<led.lastMode, led.lastColor, led.lastPattern>> = ledHist.activeSnap

\* C18 (as stated): every press that began on the inactive device, lasted
\* at least LONG_PRESS_TIME and is released while the device is inactive
\* enters brightness selection and leaves currentMode as it was
C18_LongPressEntersBrightness ==
  [][("loop" \in ledHist'.log /\ "release" \in ledHist'.log
        /\ ~ledHist.startedActive /\ ~led.isActive
        /\ SubUL(now, led.buttonPressStart) >= LONG_PRESS_TIME) =>
       /\ led'.inBrightnessSelection
       /\ led'.currentMode = led.currentMode]_vars

\* C19 (as stated): a press that is released before it has been stable for
\* DEBOUNCE_TIME produces no event: the polls of the button that follow it
\* leave mode, color, pattern, isActive, the brightness and the last*
\* snapshot as they were
C19_ShortPressNoEvent ==
  [][(ledHist'.shortPending
        /\ ("loop" \in ledHist'.log \/ "pass" \in ledHist'.log)) =>
       /\ <<led'.currentMode, led'.currentColor, led'.currentPattern>>
            = <<led.currentMode, led.currentColor, led.currentPattern>>
       /\ led'.isActive = led.isActive
       /\ led'.maxBrightness = led.maxBrightness
       /\ led'.currentBrightnessLevel = led.currentBrightnessLevel
       /\ <<led'.lastMode, led'.lastColor, led'.lastPattern>>
            = <<led.lastMode, led.lastColor, led.lastPattern>>]_vars

\* C20 (as stated): the hand-back happens exactly once per transition:
\* enableWLEDControl() is called only for a change of currentColor to
\* WLED_MODE and once for each, disableWLEDControl() only for a change away
\* from WLED_MODE and once for each
C20_OncePerTransition == ~ledHist.extraEnable /\ ~ledHist.extraDisable

\* the switch of cycleBrightness(): the brightness a level stands for
levelBrightness(level) ==
  CASE level = 0 -> BRIGHTNESS_25
    [] level = 1 -> BRIGHTNESS_50
    [] level = 2 -> BRIGHTNESS_75
    [] level = 3 -> BRIGHTNESS_100

\* what n quick presses released inside brightness selection do
RECURSIVE BrightnessPresses(_, _)
BrightnessPresses(s, n) ==
  IF n = 0 THEN s
  ELSE BrightnessPresses(setAllLEDs(cycleBrightness(s), "white"), n - 1)

\* a pass of the brightness loop has just seen the release of a quick press
QuickPressInSelectionStep ==
  /\ "pass" \in ledHist'.log
  /\ "release" \in ledHist'.log
  /\ ledHist'.duration \in 0..(QUICK_PRESS_TIME - 1)

\* C21 (as stated): inside brightness selection maxBrightness is always the
\* brightness of the level currentBrightnessLevel, four quick presses bring
\* back the brightness selection began with, and each quick press advances
\* the level by one modulo 4 through 64, 128, 192, 255
C21_FourLevels ==
  /\ [](led.inBrightnessSelection =>
          /\ led.maxBrightness = levelBrightness(led.currentBrightnessLevel)
          /\ BrightnessPresses(Work(led), 4).maxBrightness = led.maxBrightness)
  /\ [][QuickPressInSelectionStep =>
          /\ led'.currentBrightnessLevel = (led.currentBrightnessLevel + 1) % 4
          /\ led'.maxBrightness = levelBrightness(led'.currentBrightnessLevel)
          /\ led'.maxBrightness \in {64, 128, 192, 255}]_vars

\* C22: brightness selection ends only in a pass of its loop that sees the
\* release of a press of at least LONG_PRESS_TIME: no shorter press and no
\* passage of time ends it; and when it ends inBrightnessSelection is false,
\* isActive is true and currentMode, currentColor and currentPattern have
\* the values of lastMode, lastColor and lastPattern, which the loop left as
\* they were
C22_ExitOnLongPressOnly ==
  [][(led.inBrightnessSelection /\ ~led'.inBrightnessSelection) =>
       /\ "pass" \in ledHist'.log
       /\ "release" \in ledHist'.log
       /\ ledHist'.duration >= LONG_PRESS_TIME
       /\ led'.isActive
       /\ <<led'.lastMode, led'.lastColor, led'.lastPattern>>
            = <<led.lastMode, led.lastColor, led.lastPattern>>
       /\ <<led'.currentMode, led'.currentColor, led'.currentPattern>>
            = <<led.lastMode, led.lastColor, led.lastPattern>>]_vars

\* C22 witness: brightness selection has just ended on the release of a
\* long press, and the pattern the JSON state had written while the device
\* was inactive has given way to lastPattern
C22_Witness ==
  /\ "pass" \in ledHist.log
  /\ "release" \in ledHist.log
  /\ ledHist.duration >= LONG_PRESS_TIME
  /\ ledHist.jsonWrites = 1
  /\ ~led.inBrightnessSelection
  /\ led.isActive
  /\ led.maxBrightness = BRIGHTNESS_100
  /\ led.currentPattern = UNIFORM_BLINK
  /\ led.lastPattern = UNIFORM_BLINK

\* C23: while the LED Controller is inside the brightness loop the Power
\* Management usermod runs no input, battery or keep-alive check and no
\* output changes: its members, its outputs and the record of its checks
\* stay as they are (no loop() call adds to the log) until brightness
\* selection has ended, whatever time passes
C23_PowerManagementStarved ==
  [][led.inBrightnessSelection =>
       /\ UNCHANGED <<memberVars, vbatAdc, sampleLowSince, kaShutdown>>
       /\ log' \in {log, {}}]_vars

\* C23 witness: brightness selection is going on, the input pin was read
\* LOW before it began, 360000 ms and more have passed since then and since
\* the last recorded activity and last battery check, and both outputs are
\* still HIGH
C23_Witness ==
  /\ led.inBrightnessSelection
  /\ sampleLowSince # -1
  /\ SubUL(now, sampleLowSince) >= 5000
  /\ SubUL(now, lastActivityTime) >= KEEP_ALIVE_TIMEOUT
  /\ SubUL(now, lastBatteryCheck) > 10000
  /\ ~shutdownTriggered
  /\ ~lowBatteryShutdown
  /\ outputPin = HIGH
  /\ keepAlivePin = HIGH

\* C24: every redraw of the RandomBlink pattern lights exactly one pixel,
\* and never one that was lit when the redraw cleared the strip, that is
\* the pixel of the redraw before it: an index equal to the one drawn last
\* is drawn again until it differs
C24_NeverSamePixelTwice ==
  [][(pat.pc = "draw" /\ pat'.pc = "idle") =>
       /\ Cardinality(pat'.lit) = 1
       /\ pat'.lit \subseteq 0..(pat.len - 1)
       /\ pat'.lit \cap pat.prevLit = {}]_vars

\* C24 witness: on a strip of two pixels a redraw that lit pixel 0 has been
\* followed by a redraw that first drew 0 again and then lit pixel 1
C24_Witness ==
  /\ pat.len = 2
  /\ pat.pc = "idle"
  /\ pat.prevLit = {0}
  /\ pat.rerolled
  /\ pat.lit = {1}

\* the time between two time stamps on a clock that does not wrap
Elapsed(t, since) == Unwrapped(t) - Unwrapped(since)

\* C25, Power Management: a loop() call that is not skipped runs the input
\* check, the battery check, the shutdown on a held pin and the keep-alive
\* shutdown exactly when the time that has passed on a clock that does not
\* wrap says so
WrapPm ==
  "loop" \in log' =>
     /\ "input_check" \in log' <=> Elapsed(now, lastInputCheck) > 100
     /\ "battery_check" \in log' <=> Elapsed(now, lastBatteryCheck) > 10000
     /\ "held_low_shutdown" \in log' <=>
          /\ "input_check" \in log'
          /\ lastInputState' = LOW
          /\ ~shutdownTriggered
          /\ Elapsed(now, inputLowStartTime') >= 5000
     /\ "keep_alive_timeout" \in log' <=>
          Elapsed(now, lastActivityTime) >= KEEP_ALIVE_TIMEOUT

\* C25, handleButton(): the reading counts as stable, the press is given
\* its duration and the hold puts the device to sleep by the same time
WrapButton ==
  "loop" \in ledHist'.log =>
     LET pressed == ledHist'.lastSample = "pressed"
         stable == Elapsed(now, led'.lastDebounceTime) > DEBOUNCE_TIME
         held == Elapsed(now, led.buttonPressStart)
     IN  /\ "press_start" \in ledHist'.log <=>
              (stable /\ pressed /\ ~led.buttonWasPressed)
         /\ "release" \in ledHist'.log <=>
              (stable /\ ~pressed /\ led.buttonWasPressed)
         /\ "sleep_triggered" \in ledHist'.log <=>
              /\ stable /\ pressed /\ led.buttonWasPressed
              /\ ~led.sleepTriggered
              /\ held > SLEEP_PRESS_TIME
         /\ ledHist'.duration # -1 => ledHist'.duration = held

\* C25, the brightness loop: the same for its own debounce and durations
WrapSelection ==
  "pass" \in ledHist'.log =>
     LET pressed == ledHist'.lastSample = "pressed"
         stable == Elapsed(now, led'.bs_lastDebounceTime) > 50
         held == Elapsed(now, led.buttonPressStart)
     IN  /\ "press_start" \in ledHist'.log <=>
              (stable /\ pressed /\ ~led.bs_buttonWasPressed)
         /\ "release" \in ledHist'.log <=>
              (stable /\ ~pressed /\ led.bs_buttonWasPressed)
         /\ ledHist'.duration # -1 => ledHist'.duration = held
         /\ ("release" \in ledHist'.log /\ held >= 50) =>
              ledHist'.duration = held

\* C25, updatePatternMode(): a loop() call that handles no press and leaves
\* the device rendering the Chaser pattern redraws it (the chaser moves on)
\* exactly when PATTERN_INTERVAL has passed since the last redraw
WrapPattern ==
  ("loop" \in ledHist'.log /\ ledHist'.duration = -1
     /\ "sleep_triggered" \notin ledHist'.log
     /\ led.isActive /\ led'.isActive /\ ~led'.isFlashingOrange
     /\ led'.currentMode = PATTERN_SELECT /\ led'.currentColor # WLED_MODE
     /\ led'.currentPattern = CHASER) =>
     (led'.position # led.position
        <=> Elapsed(now, led.lastPatternUpdate) >= PATTERN_INTERVAL)

\* C25: with millis() wrapping, every interval comparison of the two
\* usermods (input-poll interval, battery-poll interval, input hold,
\* keep-alive timeout, button debounce, press duration, pattern interval)
\* has the outcome it has on a clock that does not wrap, also when the clock
\* rolls over between the time stamp and the comparison
C25_WrapTolerant ==
  [][WrapPm /\ WrapButton /\ WrapSelection /\ WrapPattern]_vars

\* C25 witness: the input pin went LOW before the clock rolled over, and an
\* input check after the rollover, 5000 ms or more later, has triggered the
\* shutdown
C25_Witness ==
  /\ "held_low_shutdown" \in log
  /\ inputLowStartTime >= UL_MOD - WrapWindow
  /\ now < WrapWindow
  /\ SubUL(now, inputLowStartTime) >= 5000
  /\ shutdownTriggered

\* ------------------------------------------- setup() with a failing I2S
\* pin settings tried: the constructed ones, and these with an MCLK pin
I2sPinSettings == {I2sPinsDefault, [I2sPinsDefault EXCEPT !.mclk = 7]}

\* what may fail at setup() with the pins set to pins: nothing, the
\* allocation of one of the three pins, the installation of the driver, the
\* setting of its pins, or the allocation of the MCLK pin if one is set
I2sFailures(pins) ==
  {{}, {"sd"}, {"ws"}, {"sck"}, {"install"}, {"set_pin"}}
    \cup (IF pins.mclk >= 0 THEN {{"mclk"}} ELSE {})

\* the LED Controller after construction and readFromConfig(), which has
\* set the pins
InitI2S ==
  /\ PmConstructed
  /\ now = 0
  /\ ticks = 0
  /\ led = LedConstructed
  /\ ledHist = LedHistInit
  /\ \E q \in I2sPinSettings : pat = [PatConstructed EXCEPT !.i2sPins = q]

\* boot of the LED Controller with any of these, then the button alone
NextI2S ==
  \/ \E d \in LedDeltas : LedTick(d)
  \/ \E f \in I2sFailures(pat.i2sPins) : LedSetup(f)
  \/ \E pressed \in BOOLEAN : LedLoop(FALSE, pressed)
  \/ \E pressed \in BOOLEAN : BrightnessPass(pressed)

SpecI2S == InitI2S /\ [][NextI2S]_vars

\* C26: if the allocation of an I2S pin fails, initializeI2S() returns false
\* and i2sInitialized is false, and the rest of the program goes on as it
\* does when the driver started: setup() leaves the members as it leaves
\* them after a successful start (asleep, strip off, initDone set), so that
\* the button, the color modes and the patterns that use no sound are
\* served by the same handlers, none of which reads i2sInitialized
C26_I2SFailureHarmless ==
  /\ [](pat.i2sFailing # {} => led.initDone /\ ~pat.i2sInitialized)
  /\ [][pat' # pat =>
          /\ pat'.i2sInitialized = (pat'.i2sFailing = {})
          /\ led' = [led EXCEPT !.isActive = FALSE, !.strip = "off",
                                !.initDone = TRUE]]_vars

\* the allocation of the WS pin failed at setup(); the button has woken the
\* device and a long press has taken it to pattern selection, where a
\* pattern is drawn
C26_Witness ==
  /\ pat.i2sFailing = {"ws"}
  /\ ~pat.i2sInitialized
  /\ led.isActive
  /\ led.currentMode = PATTERN_SELECT
  /\ led.strip = "pattern"

\* ------------------------------------------- the sound-reactive patterns
\* enum Patterns, continued
SOUND_REACTIVE_PULSING == 4

SOUND_REACTIVE_CLOCKWISE == 5

SOUND_REACTIVE_RANDOM == 6

SOUND_THRESHOLD == 2000000

PULSING_DIVISOR == 25000000

GAIN_FACTOR == 4

CLOCKWISE_SENSITIVITY == 50000000

BASE_BRIGHTNESS == 0

\* magnitudes the samples of a buffer may have: silence, a sound above
\* SOUND_THRESHOLD, a sound that saturates the pulsing
SampleLevels == {0, 3000000, 30000000}

\* what i2s_read() delivers: a buffer of one of the magnitudes, or
\* (I2sReadFailed) an error that leaves the buffer alone
I2sReadFailed == -1

\* void readAudioSamples(), heard being what i2s_read() would deliver
readAudioSamples(p, heard) ==
  IF ~p.i2sInitialized THEN [p EXCEPT !.calls = {}]
  ELSE IF heard = I2sReadFailed THEN [p EXCEPT !.calls = {"i2s_read"}]
  ELSE [p EXCEPT !.samples = heard, !.calls = {"i2s_read"}]

\* the largest integer not above the non-negative fraction q
Trunc(q) == q.num \div q.den

\* constrain(x, 0, 1) of a non-negative fraction
constrain01(q) == IF RatLeq(q, Rat(1, 1)) THEN q ELSE Rat(1, 1)

\* void updateSoundReactivePulsing() after readAudioSamples(), the members
\* being l: getCurrentColor() is white there (three channels of
\* maxBrightness), so that a pixel is lit when maxBrightness scaled by the
\* brightness is not 0
updateSoundReactivePulsing(p, l) ==
  LET average == Rat(p.samples, 1)
      normalized == constrain01(RatMul(RatDiv(average,
                                              Rat(PULSING_DIVISOR, 1)),
                                       Rat(GAIN_FACTOR, 1)))
      smoothed == RatAdd(RatMul(Rat(4, 5), normalized),
                         RatMul(Rat(1, 5), p.smoothedBrightness))
      brightness == BASE_BRIGHTNESS
                      + Trunc(RatMul(smoothed,
                                     Rat(l.maxBrightness - BASE_BRIGHTNESS,
                                         1)))
      channel == (l.maxBrightness * brightness) \div 255
  IN  [p EXCEPT !.smoothedBrightness = smoothed,
                !.lit = IF channel > 0 THEN 0..(p.len - 1) ELSE {},
                !.calls = @ \cup {"setPixelColor", "show"}]

\* void updateSoundReactiveClockwise() after readAudioSamples(); map() is
\* the integer map of the core, the color white
updateSoundReactiveClockwise(p, l) ==
  LET numLedsToLight == (p.samples * p.len) \div CLOCKWISE_SENSITIVITY
      written == {1 % p.len, 6 % p.len}
                   \cup {(1 + i) % p.len : i \in 0..numLedsToLight}
                   \cup {(6 + i) % p.len : i \in 0..numLedsToLight}
  IN  [p EXCEPT !.lit = IF l.maxBrightness > 0 THEN written ELSE {},
                !.calls = @ \cup {"clear", "setPixelColor", "show"}]

\* void updateSoundReactiveRandom() after readAudioSamples(), up to its
\* do-while loop
beginSoundReactiveRandom(p) ==
  IF p.samples > SOUND_THRESHOLD
  THEN [p EXCEPT !.pc = "soundDraw"]
  ELSE [p EXCEPT !.calls = @ \cup {"show"}]

\* one pass of the do-while loop of updateSoundReactiveRandom(), r being
\* what random(strip.getLengthTotal()) returns, and what follows the loop
\* when the pass ends it
soundRandomDraw(p, r, l) ==
  IF r = p.soundLastLed THEN p
  ELSE [p EXCEPT !.lit = IF l.maxBrightness > 0
                         THEN (@ \ {p.soundLastLed}) \cup {r}
                         ELSE @ \ {p.soundLastLed, r},
                 !.soundLastLed = r,
                 !.calls = @ \cup {"setPixelColor", "show"},
                 !.pc = "idle"]

SoundPatterns ==
  {SOUND_REACTIVE_PULSING, SOUND_REACTIVE_CLOCKWISE, SOUND_REACTIVE_RANDOM}

\* the press handler has just selected a sound-reactive pattern on the
\* active device, whose color is white, and is about to call
\* updatePatternMode(); setup() has run with any of the outcomes of
\* I2sFailures.  The buffer samples has no initialiser: it holds zeros in an
\* object of static storage and anything otherwise
InitSound ==
  /\ PmConstructed
  /\ now = 5000
  /\ ticks = 0
  /\ ledHist = LedHistInit
  /\ \E k \in SoundPatterns :
       led = [LedConstructed EXCEPT !.initDone = TRUE,
                                    !.isActive = TRUE,
                                    !.currentMode = PATTERN_SELECT,
                                    !.currentPattern = k,
                                    !.stripBrightness = 255]
  /\ \E n \in StripLens, f \in I2sFailures(I2sPinsDefault),
        v \in SampleLevels :
       pat = [PatConstructed EXCEPT
                !.len = n,
                !.i2sInitialized = initializeI2S(I2sPinsDefault, f),
                !.i2sFailing = f,
                !.samples = v]

\* void updatePatternMode() with a sound-reactive pattern selected, heard
\* being what i2s_read() would deliver
PatUpdateSoundReactive(heard) ==
  /\ pat.pc = "idle"
  /\ led.currentPattern \in SoundPatterns
  /\ IF SubUL(now, led.lastPatternUpdate) < PATTERN_INTERVAL
     THEN UNCHANGED <<led, pat>>
     ELSE /\ led' = [led EXCEPT !.lastPatternUpdate = now,
                                !.strip = "pattern"]
          /\ pat' = LET p == readAudioSamples(pat, heard)
                    IN  CASE led.currentPattern = SOUND_REACTIVE_PULSING ->
                               updateSoundReactivePulsing(p, led)
                          [] led.currentPattern = SOUND_REACTIVE_CLOCKWISE ->
                               updateSoundReactiveClockwise(p, led)
                          [] OTHER -> beginSoundReactiveRandom(p)
  /\ UNCHANGED <<now, ticks, ledHist, pmVars>>

\* one pass of the do-while loop of updateSoundReactiveRandom()
PatSoundRandomDraw(r) ==
  /\ pat.pc = "soundDraw"
  /\ pat' = soundRandomDraw(pat, r, led)
  /\ UNCHANGED <<now, ticks, led, ledHist, pmVars>>

NextSound ==
  \/ \E d \in PatDeltas : PatTick(d)
  \/ \E heard \in SampleLevels \cup {I2sReadFailed} :
       PatUpdateSoundReactive(heard)
  \/ \E r \in 0..(pat.len - 1) : PatSoundRandomDraw(r)

SpecSound == InitSound /\ [][NextSound]_vars

\* C27: when the I2S driver did not start, a call of a sound-reactive
\* routine reads no samples from the peripheral, writes no pixel, and
\* leaves the pixel buffer and the audio buffer as they were
C27_SoundPatternsSkipped ==
  [][(~pat.i2sInitialized /\ pat' # pat) =>
       /\ "i2s_read" \notin pat'.calls
       /\ "setPixelColor" \notin pat'.calls
       /\ pat'.lit = pat.lit
       /\ pat'.samples = pat.samples]_vars

\* ------------------------------- the configuration file across a restart
\* number of restarts explored
MaxRestarts == 1

\* amounts of time (ms) that may pass between two steps
ConfigDeltas == {60, 1000}

\* the settings the user makes: mode, color, pattern and brightness
Settings(l) ==
  <<l.currentMode, l.currentColor, l.currentPattern, l.maxBrightness>>

\* void addToConfig(JsonObject& root): the object it fills
addToConfig(l, p) == [enabled |-> l.enabled, i2s_pins |-> p.i2sPins]

\* bool readFromConfig(JsonObject& root), file being the configuration file:
\* what it makes of the members, and of the pin settings
readFromConfig(l, file) ==
  IF file = <<>> THEN l ELSE [l EXCEPT !.enabled = file[1].enabled]

readFromConfigPins(p, file) ==
  IF file = <<>> THEN p ELSE [p EXCEPT !.i2sPins = file[1].i2s_pins]

\* time passes
ConfigTick(d) ==
  /\ ticks < MaxTicksLED
  /\ ticks' = ticks + 1
  /\ now' = AddUL(now, d)
  /\ ledHist' = [ledHist EXCEPT !.log = {}, !.duration = -1,
                                !.relNow = FALSE]
  /\ UNCHANGED <<led, pmVars, patVars>>

\* the host reads the configuration file once after construction, before
\* setup()
LedReadFromConfig ==
  /\ ~led.initDone
  /\ ~ledHist.configRead
  /\ led' = readFromConfig(led, ledHist.savedConfig)
  /\ pat' = readFromConfigPins(pat, ledHist.savedConfig)
  /\ ledHist' = [ledHist EXCEPT
                   !.log = {}, !.duration = -1,
                   !.configRead = TRUE,
                   !.restored = ledHist.restarts > 0
                                  /\ ledHist.savedConfig # <<>>]
  /\ UNCHANGED <<now, ticks, pmVars>>

\* the host writes the configuration file: a callback of its loop
LedAddToConfig ==
  /\ led.initDone
  /\ ~led.inBrightnessSelection
  /\ ledHist.restarts = 0
  /\ ledHist' = [ledHist EXCEPT
                   !.log = {}, !.duration = -1,
                   !.savedConfig = <<addToConfig(led, pat)>>,
                   !.savedSettings = Settings(led)]
  /\ UNCHANGED <<now, ticks, led, pmVars, patVars>>

\* the device restarts: the usermod is constructed anew, the clock starts
\* at 0, the configuration file is what it was
LedRestart ==
  /\ led.initDone
  /\ ledHist.restarts < MaxRestarts
  /\ led' = LedConstructed
  /\ pat' = [PatConstructed EXCEPT !.len = pat.len]
  /\ now' = 0
  /\ ledHist' = [LedHistInit EXCEPT
                   !.savedConfig = ledHist.savedConfig,
                   !.savedSettings = ledHist.savedSettings,
                   !.restarts = ledHist.restarts + 1]
  /\ UNCHANGED <<ticks, pmVars>>

NextConfig ==
  \/ \E d \in ConfigDeltas : ConfigTick(d)
  \/ LedReadFromConfig
  \/ LedSetup({})
  \/ \E pressed \in BOOLEAN : LedLoop(FALSE, pressed)
  \/ \E pressed \in BOOLEAN : BrightnessPass(pressed)
  \/ LedAddToConfig
  \/ LedRestart

SpecConfig == InitLED /\ [][NextConfig]_vars

\* C28: the mode, color, pattern and brightness that were in effect when
\* addToConfig() wrote the configuration are in effect again after a
\* restart, once readFromConfig() has read it
C28_SettingsRestored ==
  [][(~ledHist.restored /\ ledHist'.restored) =>
       Settings(led') = ledHist'.savedSettings]_vars

\* C29 (as stated): in every loop() call that is not skipped, the input
\* check runs exactly when 100 ms or more have passed since the last input
\* check, and the battery check runs exactly when 10000 ms or more have
\* passed since the last battery check.
C29_ChecksRunAtInterval ==
  []["loop" \in log' =>
       /\ "input_check" \in log' <=> SubUL(now, lastInputCheck) >= 100
       /\ "battery_check" \in log' <=> SubUL(now, lastBatteryCheck) >= 10000
    ]_vars

\* ----------------------------------------------------- the color cycle
\* enum Colors, continued
CYCLE == 8

RAINBOW == 9

COLOR_CYCLE_INTERVAL == 2000

\* values of maxBrightness tried: every value of a uint8_t
CycleBrightnesses == 0..255

\* amounts of time (ms) that may pass between two calls
CycleDeltas == {1, 1000, 1999}

\* strip.Color(a, b, c): three bytes packed into a word, the inverse of the
\* shifts by which interpolateColor() takes a color apart
Color(a, b, c) == a * 65536 + b * 256 + c

\* byte k (0 the lowest) of the color word c: (c >> 8k) & 0xFF
ColorByte(c, k) == (c \div (256 ^ k)) % 256

\* one channel of interpolateColor(): c1 + (c2 - c1) * fraction, converted
\* to uint8_t; the value is between c1 and c2, so that the conversion drops
\* the fractional part
interpolateChannel(c1, c2, fraction) ==
  ((c1 * fraction.den + (c2 - c1) * fraction.num) \div fraction.den) % 256

\* the interpolated channels are given to strip.Color() in the order the
\* names of the variables suggest: r, g, b
interpolateColor_ByName(color1, color2, fraction) ==
  Color(interpolateChannel(ColorByte(color1, 1), ColorByte(color2, 1),
                           fraction),
        interpolateChannel(ColorByte(color1, 2), ColorByte(color2, 2),
                           fraction),
        interpolateChannel(ColorByte(color1, 0), ColorByte(color2, 0),
                           fraction))

\* uint32_t interpolateColor(uint32_t color1, uint32_t color2,
\* float fraction): g is made of the bytes 2, r of the bytes 1, b of the
\* bytes 0, and the result is strip.Color(g, r, b)
interpolateColor(color1, color2, fraction) ==
  Color(interpolateChannel(ColorByte(color1, 2), ColorByte(color2, 2),
                           fraction),
        interpolateChannel(ColorByte(color1, 1), ColorByte(color2, 1),
                           fraction),
        interpolateChannel(ColorByte(color1, 0), ColorByte(color2, 0),
                           fraction))

\* the palette of setCycleColors() as its initialiser makes it of the
\* maxBrightness m; the divisions are those of int
CycleColors(m) ==
  << Color(0, m, 0),
     Color((m * 100) \div 255, m, 0),
     Color((m * 165) \div 255, m, 0),
     Color(m, m \div 2, 0),
     Color(m, 0, 0),
     Color(m \div 2, 0, m),
     Color(m, 0, m),
     Color(0, m \div 2, m),
     Color(0, 0, m),
     Color(0, m, m \div 2),
     Color(0, m, m),
     Color(0, m, m \div 2) >>

\* void setCycleColors() at the time ms, the members being l: the static
\* palette is initialised by the first call
setCycleColors(p, l, ms) ==
  LET palette == IF p.cycleColors = <<>> THEN CycleColors(l.maxBrightness)
                 ELSE p.cycleColors
      numColors == Len(palette)
      cycleIndex == (ms \div COLOR_CYCLE_INTERVAL) % numColors
      fraction == Rat(ms % COLOR_CYCLE_INTERVAL, COLOR_CYCLE_INTERVAL)
      currentColor == interpolateColor(palette[cycleIndex + 1],
                                       palette[((cycleIndex + 1) % numColors)
                                                 + 1],
                                       fraction)
  IN  [p EXCEPT !.cycleColors = palette,
                !.shown = currentColor,
                !.lit = IF currentColor # 0 THEN 0..(p.len - 1) ELSE {},
                !.shownAt = ms]

\* the active device in color selection with CYCLE selected, at the
\* beginning of any of the twelve intervals of the cycle, with any
\* brightness
InitCycle ==
  /\ PmConstructed
  /\ \E i \in 0..11 : now = i * COLOR_CYCLE_INTERVAL
  /\ ticks = 0
  /\ ledHist = LedHistInit
  /\ \E m \in CycleBrightnesses :
       led = [LedConstructed EXCEPT !.initDone = TRUE,
                                    !.isActive = TRUE,
                                    !.currentColor = CYCLE,
                                    !.maxBrightness = m,
                                    !.stripBrightness = 255]
  /\ pat = PatConstructed

\* time passes between two calls
CycleTick(d) ==
  /\ ticks < MaxTicksPattern
  /\ ticks' = ticks + 1
  /\ now' = AddUL(now, d)
  /\ UNCHANGED <<led, ledHist, pat, pmVars>>

\* void updateColorMode() with currentColor = CYCLE
PatUpdateColorMode ==
  /\ led.isActive
  /\ led.currentMode = COLOR_SELECT
  /\ led.currentColor = CYCLE
  /\ pat' = setCycleColors(pat, led, now)
  /\ UNCHANGED <<now, ticks, led, ledHist, pmVars>>

NextCycle ==
  \/ \E d \in CycleDeltas : CycleTick(d)
  \/ PatUpdateColorMode

SpecCycle == InitCycle /\ [][NextCycle]_vars

\* C30: the color setCycleColors() shows is the palette entry of the
\* present interval exactly when the interval begins (fraction 0), and in
\* the last millisecond of the interval (fraction 1999/2000) each of its
\* three channels is within one unit of that channel of the next entry, for
\* each of the twelve pairs of adjacent entries
C30_InterpolationEnds ==
  pat.shownAt >= 0 =>
    LET palette == CycleColors(led.maxBrightness)
        i == (pat.shownAt \div COLOR_CYCLE_INTERVAL) % 12
        first == palette[i + 1]
        second == palette[((i + 1) % 12) + 1]
        at == pat.shownAt % COLOR_CYCLE_INTERVAL
    IN  /\ at = 0 => pat.shown = first
        /\ at = COLOR_CYCLE_INTERVAL - 1 =>
             \A k \in 0..2 :
               /\ ColorByte(pat.shown, k) - ColorByte(second, k) <= 1
               /\ ColorByte(second, k) - ColorByte(pat.shown, k) <= 1

\* the last millisecond of the first interval at full brightness: the
\* color is on its way from (0, 255, 0) to (100, 255, 0), and the color
\* shown is one short of the latter in the top byte
C30_Witness ==
  /\ pat.shownAt = COLOR_CYCLE_INTERVAL - 1
  /\ led.maxBrightness = 255
  /\ pat.shown = Color(99, 255, 0)

\* ------------------------------------------------- the Chaser pattern
\* number of ChaserTick steps explored
MaxTicksChaser == 3

\* strip lengths tried
ChaserLens == {1, 2, 3, 4}

\* amounts of time (ms) that may pass between two calls of loop()
ChaserDeltas == {40, 51, 100}

\* the device is active in pattern selection at 5000 ms, the button
\* released and settled; either UNIFORM_BLINK is selected, or CHASER is, at
\* any position, its last redraw 60 ms ago
InitChaser ==
  /\ PmConstructed
  /\ now = 5000
  /\ ticks = 0
  /\ ledHist = LedHistInit
  /\ \E n \in ChaserLens :
       \/ /\ led = [LedConstructed EXCEPT !.initDone = TRUE,
                                          !.isActive = TRUE,
                                          !.currentMode = PATTERN_SELECT,
                                          !.currentPattern = UNIFORM_BLINK,
                                          !.lastPatternUpdate = 4940,
                                          !.strip = "pattern",
                                          !.stripLen = n]
          /\ pat = [PatConstructed EXCEPT !.len = n]
       \/ \E p \in 0..(n - 1) :
            /\ led = [LedConstructed EXCEPT !.initDone = TRUE,
                                            !.isActive = TRUE,
                                            !.currentMode = PATTERN_SELECT,
                                            !.currentPattern = CHASER,
                                            !.lastPatternUpdate = 4940,
                                            !.position = (p + 1) % n,
                                            !.strip = "pattern",
                                            !.stripLen = n]
            /\ pat = [PatConstructed EXCEPT
                        !.len = n,
                        !.chaserWindow = {(p + i) % n : i \in 0..2},
                        !.chaserFrom = p,
                        !.chaserAt = 4940]

\* time passes
ChaserTick(d) ==
  /\ ticks < MaxTicksChaser
  /\ ticks' = ticks + 1
  /\ now' = AddUL(now, d)
  /\ ledHist' = [ledHist EXCEPT !.log = {}, !.duration = -1,
                                !.relNow = FALSE]
  /\ pat' = [pat EXCEPT !.chaserDraws = 0]
  /\ UNCHANGED <<led, pmVars>>

\* what the calls of updateChaser() listed in drawn, made at ms, leave
RECURSIVE chaserDrawn(_, _, _)
chaserDrawn(p, drawn, ms) ==
  IF drawn = <<>> THEN p
  ELSE chaserDrawn([p EXCEPT !.chaserWindow = Head(drawn).pixels,
                             !.chaserFrom = Head(drawn).from,
                             !.chaserGap = IF p.chaserAt = -1 THEN -1
                                           ELSE SubUL(ms, p.chaserAt),
                             !.chaserAt = ms,
                             !.chaserDraws = @ + 1],
                   Tail(drawn), ms)

\* void loop() of the LED Controller with the pixels updateChaser() writes
ChaserLoop(pressed) ==
  /\ led.initDone
  /\ ~led.inBrightnessSelection
  /\ led.enabled
  /\ LET s == ledLoop(Work(led), pressed, now)
     IN  /\ led' = Members(s)
         /\ ledHist' = sampleAfter(histAfter(ledHist, led, s, TRUE),
                                   led, pressed, now)
         /\ pat' = chaserDrawn([pat EXCEPT !.chaserDraws = 0], s.drawn, now)
  /\ UNCHANGED <<now, ticks, pmVars>>

\* the JSON state written through the host while the Chaser runs
ChaserJsonObjects == { [pattern |-> UNIFORM_BLINK], [pattern |-> CHASER] }

NextChaser ==
  \/ \E d \in ChaserDeltas : ChaserTick(d)
  \/ \E pressed \in BOOLEAN : ChaserLoop(pressed)
  \/ \E obj \in ChaserJsonObjects : LedReadFromJsonState(FALSE, obj)

SpecChaser == InitChaser /\ [][NextChaser]_vars

C32_TriggeredMeansLow ==
  ("loop" \in log /\ shutdownTriggered)
    => (outputPin = LOW /\ keepAlivePin = LOW)

\* a loop() call whose input check saw the release, cleared the flag and
\* drove the outputs HIGH, and whose keep-alive check then triggered the
\* shutdown again
C32_Witness ==
  /\ "loop" \in log
  /\ "released" \in log
  /\ "keep_alive_timeout" \in log
  /\ shutdownTriggered
  /\ outputPin = LOW
  /\ keepAlivePin = LOW

\* C33: in every state after setup(), if the output pin or the keep-alive
\* pin is LOW then shutdownTriggered or lowBatteryShutdown is true
C33_LowHasReason ==
  setupCalled =>
    ((outputPin = LOW \/ keepAlivePin = LOW)
       => (shutdownTriggered \/ lowBatteryShutdown))

\* the outputs are LOW for the low battery alone, and for the keep-alive
\* timeout alone
C33_Witness ==
  /\ setupCalled
  /\ outputPin = LOW
  /\ keepAlivePin = LOW
  /\ \/ lowBatteryShutdown /\ ~shutdownTriggered
     \/ ~lowBatteryShutdown /\ shutdownTriggered /\ kaShutdown

\* C34: after setup() the output pin and the keep-alive pin have the same
\* level in every state, and every step that changes one of them leaves
\* both at the same level
C34_PinsTogether ==
  /\ [](setupCalled => outputPin = keepAlivePin)
  /\ [][(outputPin' # outputPin \/ keepAlivePin' # keepAlivePin)
          => outputPin' = keepAlivePin']_vars

\* the outputs were LOW and the input check that saw the release has driven
\* both back to HIGH
C34_Witness ==
  /\ "loop" \in log
  /\ "released" \in log
  /\ ~shutdownTriggered
  /\ outputPin = HIGH
  /\ keepAlivePin = HIGH
  /\ lowBatteryShutdown

\* C35: isFlashingOrange is true only while a debounced press is in
\* progress (buttonWasPressed is true); every loop() call that sees the
\* release leaves it false, so after the release the flash flag never keeps
\* loop() from rendering
C35_FlashOnlyWhileHeld ==
  /\ [](led.isFlashingOrange => led.buttonWasPressed)
  /\ [][("loop" \in ledHist'.log /\ "release" \in ledHist'.log)
          => ~led'.isFlashingOrange]_vars

\* a loop() call has just seen the release of a press that had been
\* answered with the orange flash, and has cleared the flag
C35_Witness ==
  /\ "loop" \in ledHist.log
  /\ "release" \in ledHist.log
  /\ "flash_cleared" \in ledHist.log
  /\ ledHist.duration > LONG_PRESS_TIME
  /\ led.isActive
  /\ ~led.isFlashingOrange
  /\ ~led.buttonWasPressed

\* ---------------------------------------------------------------------
\* Presses between QUICK_PRESS_TIME and LONG_PRESS_TIME

MaxTicksDeadBand == 4

\* the time steps: the debounce window, and the steps that make a press of
\* exactly QUICK_PRESS_TIME and of LONG_PRESS_TIME - 1 with it
DeadBandDeltas == {60, 440, 939}

\* the members after this run: the device is active with mode m, color c
\* and pattern p and the button is read released at 60 ms and at 3121 ms
AwakeIn(m, c, p) ==
  LET s0 == [Work(LedConstructed) EXCEPT !.initDone = TRUE,
                                         !.isActive = TRUE,
                                         !.currentMode = m,
                                         !.currentColor = c,
                                         !.currentPattern = p]
      s1 == ledLoop(s0, FALSE, 60)
      s2 == ledLoop(s1, FALSE, 3121)
  IN  Members(s2)

\* the device is active, or has just been put to sleep with the button
InitDeadBand ==
  /\ PmConstructed
  /\ now = 3121
  /\ ticks = 0
  /\ pat = PatConstructed
  /\ \E q \in SleepStates :
        /\ led \in {AwakeIn(q[1], q[2], q[3]), AsleepFrom(q[1], q[2], q[3])}
        /\ ledHist = [LedHistInit EXCEPT !.activeSnap = q,
                                         !.sleptClean = ~led.isActive,
                                         !.startedActive = TRUE,
                                         !.lastSample = "released",
                                         !.relNow = TRUE]

\* time passes
DeadBandTick(d) ==
  /\ ticks < MaxTicksDeadBand
  /\ ticks' = ticks + 1
  /\ now' = AddUL(now, d)
  /\ ledHist' = [ledHist EXCEPT !.log = {}, !.duration = -1,
                                !.relNow = FALSE]
  /\ UNCHANGED <<led, pmVars, patVars>>

NextDeadBand ==
  \/ \E d \in DeadBandDeltas : DeadBandTick(d)
  \/ \E pressed \in BOOLEAN : LedLoop(FALSE, pressed)
  \/ \E pressed \in BOOLEAN : BrightnessPass(pressed)

SpecDeadBand == InitDeadBand /\ [][NextDeadBand]_vars

\* C36: a loop() call that sees the release of a press of at least
\* QUICK_PRESS_TIME and less than LONG_PRESS_TIME, on the active or the
\* sleeping device, changes none of currentMode, currentColor,
\* currentPattern, isActive, the brightness and the last* snapshot, and
\* does not enter brightness selection
C36_DeadBand ==
  [][("loop" \in ledHist'.log
          /\ "release" \in ledHist'.log
          /\ ledHist'.duration >= QUICK_PRESS_TIME
          /\ ledHist'.duration < LONG_PRESS_TIME)
       => /\ led'.currentMode = led.currentMode
          /\ led'.currentColor = led.currentColor
          /\ led'.currentPattern = led.currentPattern
          /\ led'.isActive = led.isActive
          /\ led'.maxBrightness = led.maxBrightness
          /\ led'.currentBrightnessLevel = led.currentBrightnessLevel
          /\ led'.stripBrightness = led.stripBrightness
          /\ led'.lastMode = led.lastMode
          /\ led'.lastColor = led.lastColor
          /\ led'.lastPattern = led.lastPattern
          /\ ~led'.inBrightnessSelection]_vars

\* a press of exactly QUICK_PRESS_TIME has just been released on the
\* sleeping device, which is still asleep
C36_Witness ==
  /\ "loop" \in ledHist.log
  /\ "release" \in ledHist.log
  /\ ledHist.duration = QUICK_PRESS_TIME
  /\ ~led.isActive
  /\ ~led.inBrightnessSelection

\* ---------------------------------------------------------------------
\* The button alone

MaxTicksButtons == 3

\* mode, color and pattern of the states the walk starts from: each of
\* them is selected with quick and long presses from the state after boot
ButtonStates ==
  { <<m, c, p>> : m \in {COLOR_SELECT, PATTERN_SELECT},
                  c \in WHITE..RAINBOW,
                  p \in {UNIFORM_BLINK, SOUND_REACTIVE_RANDOM} }

\* the button samples of three runs, each <<pressed, millis()>> of one
\* loop(): the button is read released twice; it is held for 3001 ms and
\* released, which puts the device to sleep; and on the sleeping device it
\* is then held from 3181 ms and released at 4181 ms, the release of a
\* press of 1000 ms, so that enterBrightnessSelection() shows white and
\* waits
AwakeRun == << <<FALSE, 60>>, <<FALSE, 3121>> >>

AsleepRun ==
  << <<TRUE, 60>>, <<TRUE, 3061>>, <<FALSE, 3061>>, <<FALSE, 3121>> >>

SelectingRun ==
  AsleepRun \o
  << <<TRUE, 3121>>, <<TRUE, 3181>>, <<FALSE, 4181>>, <<FALSE, 4241>> >>

ButtonRuns == {AwakeRun, AsleepRun, SelectingRun}

\* loop() called once per sample of the run
RECURSIVE ledLoops(_, _)
ledLoops(s, run) ==
  IF run = <<>> THEN s
  ELSE ledLoops(ledLoop(s, Head(run)[1], Head(run)[2]), Tail(run))

\* the members after the run on the device active with mode m, color c
\* and pattern p
AfterRun(m, c, p, run) ==
  Members(ledLoops([Work(LedConstructed) EXCEPT !.initDone = TRUE,
                                                !.isActive = TRUE,
                                                !.currentMode = m,
                                                !.currentColor = c,
                                                !.currentPattern = p],
                   run))

\* the device has just been constructed, or it was active with one of
\* ButtonStates and one of ButtonRuns has just ended: it is active, asleep
\* or in brightness selection
InitButtons ==
  /\ PmConstructed
  /\ ticks = 0
  /\ pat = PatConstructed
  /\ \/ /\ now = 0
        /\ led = LedConstructed
        /\ ledHist = LedHistInit
     \/ \E q \in ButtonStates, run \in ButtonRuns :
          /\ now = run[Len(run)][2]
          /\ led = AfterRun(q[1], q[2], q[3], run)
          /\ ledHist = [LedHistInit EXCEPT !.activeSnap = q,
                                           !.sleptClean = ~led.isActive,
                                           !.startedActive = TRUE,
                                           !.lastSample = "released",
                                           !.relNow = TRUE]

\* time passes
ButtonsTick(d) ==
  /\ ticks < MaxTicksButtons
  /\ ticks' = ticks + 1
  /\ now' = AddUL(now, d)
  /\ ledHist' = [ledHist EXCEPT !.log = {}, !.duration = -1,
                                !.relNow = FALSE]
  /\ UNCHANGED <<led, pmVars, patVars>>

\* setup() and the button: no JSON state is written
NextButtons ==
  \/ \E d \in LedDeltas : ButtonsTick(d)
  \/ LedSetup({})
  \/ \E pressed \in BOOLEAN : LedLoop(FALSE, pressed)
  \/ \E pressed \in BOOLEAN : BrightnessPass(pressed)

SpecButtons == InitButtons /\ [][NextButtons]_vars

RerollIndices == UNION { 0..(n - 1) : n \in StripLens }

\* RANDOM_BLINK or a sound-reactive pattern has just been selected
InitReroll == InitRandomBlink \/ InitSound

NextReroll ==
  \/ \E d \in PatDeltas : PatTick(d)
  \/ PatUpdatePatternMode
  \/ \E heard \in SampleLevels \cup {I2sReadFailed} :
       PatUpdateSoundReactive(heard)
  \/ \E r \in 0..(pat.len - 1) : PatRandomDraw(r)
  \/ \E r \in 0..(pat.len - 1) : PatSoundRandomDraw(r)

\* a loop that is running makes its next pass, and random() keeps
\* returning every index of the strip
FairRandom ==
  \A r \in RerollIndices :
    /\ WF_vars(r < pat.len /\ PatRandomDraw(r))
    /\ WF_vars(r < pat.len /\ PatSoundRandomDraw(r))

SpecReroll == InitReroll /\ [][NextReroll]_vars /\ FairRandom

\* C38: with a fair random source the re-roll loops of updateRandomBlink()
\* and updateSoundReactiveRandom() end on every call, for every strip
\* length from 1 up
C38_RerollTerminates ==
  /\ (pat.pc = "draw") ~> (pat.pc = "idle")
  /\ (pat.pc = "soundDraw") ~> (pat.pc = "idle")

\* ---------------------------------------------------------------------
\* The colors and the brightness

\* enum Colors, the rest
RED == 1

ORANGE == 2

YELLOW == 3

GREEN == 4

PINK == 6

PURPLE == 7

MaxTicksPalette == 2

PaletteDeltas == {1000, 2000}

\* the initialiser of the arrays rainbowColors of setRainbowColors() and of
\* getCurrentColor(), with maxBrightness = m
RainbowColors(m) ==
  << Color(0, m, 0),
     Color((m * 100) \div 255, m, 0),
     Color((m * 165) \div 255, m, 0),
     Color(m, m \div 2, 0),
     Color(m, 0, 0),
     Color(m \div 2, 0, m),
     Color(m, 0, m),
     Color(0, 0, m),
     Color(0, m \div 2, m),
     Color(0, m, m \div 2) >>

\* the switch of getCurrentColor() for the colors that are no palette
SolidColor(c, m) ==
  CASE c = WHITE -> Color(m, m, m)
    [] c = RED -> Color(0, m, 0)
    [] c = ORANGE -> Color((m * 100) \div 255, m, 0)
    [] c = YELLOW -> Color((m * 165) \div 255, m, 0)
    [] c = GREEN -> Color(m, 0, 0)
    [] c = BLUE -> Color(0, 0, m)
    [] c = PINK -> Color(0, m, m \div 2)
    [] c = PURPLE -> Color(0, m \div 2, m \div 2)
    [] OTHER -> Color(m, m, m)

\* what getCurrentColor(ledIndex) returns at the time ms for the color c
\* and maxBrightness m when its arrays hold rainbow and cycle
colorFrom(c, m, rainbow, cycle, ledIndex, ms) ==
  IF c = WLED_MODE THEN Color(0, 0, 0)
  ELSE IF c = RAINBOW THEN rainbow[(ledIndex % 10) + 1]
  ELSE IF c = CYCLE
  THEN LET numColors == Len(cycle)
           cycleIndex == (ms \div COLOR_CYCLE_INTERVAL) % numColors
           fraction == Rat(ms % COLOR_CYCLE_INTERVAL, COLOR_CYCLE_INTERVAL)
       IN  interpolateColor(cycle[cycleIndex + 1],
                            cycle[((cycleIndex + 1) % numColors) + 1],
                            fraction)
  ELSE SolidColor(c, m)

\* uint32_t getCurrentColor(int ledIndex) at the time ms, the members being
\* l: each static array is initialised when the call first passes its
\* declaration.  Gives the statics after the call and the value returned
getCurrentColor(p, l, ledIndex, ms) ==
  LET rainbow == IF l.currentColor = RAINBOW /\ p.gcRainbowColors = <<>>
                 THEN RainbowColors(l.maxBrightness)
                 ELSE p.gcRainbowColors
      cycle == IF l.currentColor = CYCLE /\ p.gcCycleColors = <<>>
               THEN CycleColors(l.maxBrightness)
               ELSE p.gcCycleColors
  IN  [ pat |-> [p EXCEPT !.gcRainbowColors = rainbow,
                          !.gcCycleColors = cycle],
        color |-> colorFrom(l.currentColor, l.maxBrightness, rainbow, cycle,
                            ledIndex, ms) ]

\* void setRainbowColors(): the static array is initialised by the first
\* call
setRainbowColors(p, l, ms) ==
  LET palette == IF p.rainbowColors = <<>>
                 THEN RainbowColors(l.maxBrightness)
                 ELSE p.rainbowColors
  IN  [p EXCEPT !.rainbowColors = palette,
                !.pixels = [i \in 1..p.len |-> palette[((i - 1) % 10) + 1]],
                !.shownAt = ms,
                !.shownBy = "updateColorMode"]

\* void updateColorMode() with the pixels it writes
updateColorModePixels(p, l, ms) ==
  IF l.currentColor = WLED_MODE THEN p
  ELSE IF l.currentColor = RAINBOW THEN setRainbowColors(p, l, ms)
  ELSE IF l.currentColor = CYCLE
  THEN LET q == setCycleColors(p, l, ms)
       IN  [q EXCEPT !.pixels = [i \in 1..p.len |-> q.shown],
                     !.shownBy = "updateColorMode"]
  ELSE LET g == getCurrentColor(p, l, 0, ms)
       IN  [g.pat EXCEPT !.pixels = [i \in 1..p.len |-> g.color],
                         !.shownAt = ms,
                         !.shownBy = "updateColorMode"]

\* the loop of updateUniformBlink() that lights the strip, from pixel i on:
\* strip.setPixelColor(i, getCurrentColor(i))
RECURSIVE paintFrom(_, _, _, _)
paintFrom(p, l, i, ms) ==
  IF i >= p.len THEN p
  ELSE LET g == getCurrentColor(p, l, i, ms)
       IN  paintFrom([g.pat EXCEPT !.pixels[i + 1] = g.color], l, i + 1, ms)

\* void updateUniformBlink() when it is due and switches the strip on
updateUniformBlinkOn(p, l, ms) ==
  [paintFrom([p EXCEPT !.pixels = [i \in 1..p.len |-> 0]], l, 0, ms)
     EXCEPT !.shownAt = ms, !.shownBy = "updateUniformBlink"]

\* the device is active with any of the ten colors, in either mode, with
\* the brightness it is constructed with; nothing has been drawn yet
InitPalette ==
  /\ PmConstructed
  /\ now = 6000
  /\ ticks = 0
  /\ ledHist = LedHistInit
  /\ pat = PatConstructed
  /\ \E c \in WHITE..RAINBOW, m \in {COLOR_SELECT, PATTERN_SELECT} :
       led = [LedConstructed EXCEPT !.initDone = TRUE,
                                    !.isActive = TRUE,
                                    !.currentMode = m,
                                    !.currentColor = c,
                                    !.stripBrightness = 255]

\* time passes
PaletteTick(d) ==
  /\ ticks < MaxTicksPalette
  /\ ticks' = ticks + 1
  /\ now' = AddUL(now, d)
  /\ UNCHANGED <<led, ledHist, pat, pmVars>>

\* loop() redraws the color in color selection
PaletteUpdateColorMode ==
  /\ led.currentMode = COLOR_SELECT
  /\ pat' = updateColorModePixels(pat, led, now)
  /\ UNCHANGED <<now, ticks, led, ledHist, pmVars>>

\* loop() redraws the Uniform Blink pattern in pattern selection
PaletteUpdateUniformBlink ==
  /\ led.currentMode = PATTERN_SELECT
  /\ led.currentPattern = UNIFORM_BLINK
  /\ pat' = updateUniformBlinkOn(pat, led, now)
  /\ UNCHANGED <<now, ticks, led, ledHist, pmVars>>

\* a quick press in the brightness selection: cycleBrightness(), then the
\* strip shows white at the new brightness; the device comes back from the
\* selection with the color, mode and pattern it had
PaletteCycleBrightness ==
  /\ led' = Members(cycleBrightness(Work(led)))
  /\ pat' = [pat EXCEPT
               !.pixels = [i \in 1..pat.len |->
                             Color(led'.maxBrightness, led'.maxBrightness,
                                   led'.maxBrightness)],
               !.shownAt = now,
               !.shownBy = "setAllLEDs"]
  /\ UNCHANGED <<now, ticks, ledHist, pmVars>>

NextPalette ==
  \/ \E d \in PaletteDeltas : PaletteTick(d)
  \/ PaletteUpdateColorMode
  \/ PaletteUpdateUniformBlink
  \/ PaletteCycleBrightness

SpecPalette == InitPalette /\ [][NextPalette]_vars

\* the pixels the strip shows were drawn for the selected color by
\* updateColorMode() or updateUniformBlink()
PaletteDrawn == pat.shownBy \in {"updateColorMode", "updateUniformBlink"}

\* C39: the colors drawn by getCurrentColor(), setRainbowColors() and
\* setCycleColors() are the ones computed from the maxBrightness of the
\* time of the drawing, for each of the ten colors and whatever was drawn
\* before cycleBrightness() changed it
C39_ColorsFollowBrightness ==
  PaletteDrawn =>
    \A i \in 1..pat.len :
      pat.pixels[i] = colorFrom(led.currentColor, led.maxBrightness,
                                RainbowColors(led.maxBrightness),
                                CycleColors(led.maxBrightness),
                                i - 1, pat.shownAt)

\* ---------------------------------------------------------------------
\* The long press between the two modes

MaxTicksModeSwitch == 3

\* mode, color, pattern and position of the active device: any pattern
\* with position 0, and the Chaser at every position
ModeSwitchStates ==
  { <<m, c, p, k>> : m \in {COLOR_SELECT, PATTERN_SELECT},
                     c \in {WHITE, RAINBOW, WLED_MODE},
                     p \in 0..(PATTERN_COUNT - 1),
                     k \in 0..(StripLen - 1) } \cap
  { q \in (0..1) \X (0..WLED_MODE) \X (0..PATTERN_COUNT) \X (0..StripLen) :
      q[4] = 0 \/ q[3] = CHASER }

InitModeSwitch ==
  /\ PmConstructed
  /\ now = 3121
  /\ ticks = 0
  /\ pat = PatConstructed
  /\ \E q \in ModeSwitchStates :
        /\ led = [AwakeIn(q[1], q[2], q[3]) EXCEPT !.position = q[4]]
        /\ ledHist = [LedHistInit EXCEPT
                        !.activeSnap = <<q[1], q[2], q[3]>>,
                        !.startedActive = TRUE,
                        !.lastSample = "released",
                        !.relNow = TRUE]

\* time passes
ModeSwitchTick(d) ==
  /\ ticks < MaxTicksModeSwitch
  /\ ticks' = ticks + 1
  /\ now' = AddUL(now, d)
  /\ ledHist' = [ledHist EXCEPT !.log = {}, !.duration = -1,
                                !.relNow = FALSE]
  /\ UNCHANGED <<led, pmVars, patVars>>

NextModeSwitch ==
  \/ \E d \in LedDeltas : ModeSwitchTick(d)
  \/ \E pressed \in BOOLEAN : LedLoop(FALSE, pressed)

SpecModeSwitch == InitModeSwitch /\ [][NextModeSwitch]_vars

\* a loop() call has just seen, on the active device, the release of a
\* press of at least LONG_PRESS_TIME and less than SLEEP_PRESS_TIME
LongPressReleasedStep ==
  /\ led.isActive
  /\ "loop" \in ledHist'.log
  /\ "release" \in ledHist'.log
  /\ ledHist'.duration >= LONG_PRESS_TIME
  /\ ledHist'.duration < SLEEP_PRESS_TIME

\* C40: a long press in COLOR_SELECT leaves PATTERN_SELECT with
\* currentPattern = UNIFORM_BLINK and position = 0 whatever the pattern and
\* the position were; a long press in PATTERN_SELECT leaves COLOR_SELECT
\* with currentColor and currentPattern as they were
C40_LongPressSwitch ==
  [][LongPressReleasedStep
       => /\ led.currentMode = COLOR_SELECT
               => /\ led'.currentMode = PATTERN_SELECT
                  /\ led'.currentPattern = UNIFORM_BLINK
                  /\ led'.position = 0
          /\ led.currentMode = PATTERN_SELECT
               => /\ led'.currentMode = COLOR_SELECT
                  /\ led'.currentColor = led.currentColor
                  /\ led'.currentPattern = led.currentPattern]_vars

\* the release of a long press on the active device has just left it in
\* pattern selection with Uniform Blink at position 0, redrawn by the same
\* call
C40_Witness ==
  /\ led.isActive
  /\ "release" \in ledHist.log
  /\ ledHist.duration >= LONG_PRESS_TIME
  /\ ledHist.activeSnap[1] = PATTERN_SELECT
  /\ ledHist.startedActive
  /\ led.currentMode = PATTERN_SELECT
  /\ led.currentPattern = UNIFORM_BLINK
  /\ led.position = 0
  /\ led.lastPatternUpdate = now
  /\ ticks = 3

====
